---- MODULE Spec2Model ----
(***************************************************************************)
(* Test Execution & Caching Engine of "shortest": the TestRun state        *)
(* machine (core/runner/test-run.ts), the TestRunner orchestration and     *)
(* cached replay (TestRunner.executeTestFile / executeTest /               *)
(* runCachedTest) and the cache repository the runner talks to.            *)
(*                                                                         *)
(* Three specifications share the definitions below:                       *)
(*   SpecTestRun  one TestRun object driven by arbitrary calls of its      *)
(*                public methods (the object in isolation);                *)
(*   Spec         an engine process running a test file with one test case *)
(*                through executeTestFile, against the cache directory     *)
(*                earlier processes left behind;                           *)
(*   SpecRepository  a repository over any cache directory, asked for the  *)
(*                run to replay.                                           *)
(***************************************************************************)
EXTENDS Naturals, Integers, Sequences, FiniteSets, TLC

(***************************************************************************)
(* Bounds of the model.                                                    *)
(***************************************************************************)
\* longest step log a run records
MaxSteps == 2
\* most entry files the cache directory holds when the engine starts
MaxRuns == 1

(***************************************************************************)
(* Values.                                                                 *)
(***************************************************************************)
\* TestRunRepository.VERSION, the schema version of the running engine
VERSION == 2

\* `undefined` for a reason (state.reason is optional for pending/running)
NoReason == "<undefined>"
\* `undefined` for the optional tokenUsage argument
NoUsage == [undefined |-> TRUE]
\* no exception
NoError == "<none>"

\* tokenUsage of a fresh TestRun  (test-run.ts:93-97)
ZeroUsage == [completionTokens |-> 0, promptTokens |-> 0, totalTokens |-> 0]
\* token usages an Action Decider may report
Usages == {[completionTokens |-> 10, promptTokens |-> 20, totalTokens |-> 30]}

\* fingerprints (normalized component strings) the page can show
Fingerprints == {"<a/>", "<b/>"}
\* fingerprints captured at recording time
RecordedFingerprints == {"<a/>"}

\* The recorded steps: the action input's discriminator, whether the input
\* carries `coordinate`, and extras.componentStr captured at recording time.
Step(a, c, f) == [action |-> a, coordinate |-> c, componentStr |-> f]
Steps ==
  {Step("screenshot", FALSE, "")} \cup
  {Step("left_click", FALSE, "")} \cup
  {Step("mouse_move", FALSE, "")} \cup
  {Step("mouse_move", TRUE, f) : f \in RecordedFingerprints}

RECURSIVE SeqsUpTo(_, _)
SeqsUpTo(S, n) ==
  IF n = 0 THEN {<<>>}
  ELSE LET shorter == SeqsUpTo(S, n - 1)
       IN shorter \cup {Append(s, x) : s \in {t \in shorter : Len(t) = n - 1}, x \in S}

(***************************************************************************)
(* TestRun  (core/runner/test-run.ts)                                      *)
(***************************************************************************)
ErrStart == "Can only start from pending state"
ErrPass == "Can only pass from running state"

\* outcome of a method call: the exception it threw (or NoError) and the
\* object as the call left it
Return(tr) == [thrown |-> NoError, run |-> tr]
Throw(msg, tr) == [thrown |-> msg, run |-> tr]

\* new TestRun(testCase, {runId, timestamp, executedFromCache}) with the
\* field initialisers of the class
NewTestRun(runId, timestamp, executedFromCache) ==
  [runId |-> runId,
   timestamp |-> timestamp,
   steps |-> <<>>,
   tokenUsage |-> ZeroUsage,
   version |-> VERSION,
   executedFromCache |-> executedFromCache,
   status |-> "pending",
   reason |-> NoReason]

\* TestRun.create: runId and timestamp both come from the creation time
create(now) == NewTestRun(now, now, FALSE)

\* bug variant: the pending guard is missing
markRunning_noGuard(tr) ==
  Return([tr EXCEPT !.status = "running", !.reason = NoReason])

markRunning(tr) ==
  IF tr.status # "pending"
  THEN Throw(ErrStart, tr)
  ELSE Return([tr EXCEPT !.status = "running", !.reason = NoReason])

\* bug variant: the running guard is missing
markPassed_noGuard(tr, reason, tokenUsage) ==
  Return([tr EXCEPT !.status = "passed",
                    !.reason = reason,
                    !.tokenUsage = IF tokenUsage # NoUsage
                                   THEN tokenUsage ELSE @])

\* bug variant: a failed run may be marked passed again
markPassed_fromFailed(tr, reason, tokenUsage) ==
  IF tr.status \notin {"running", "failed"}
  THEN Throw(ErrPass, tr)
  ELSE Return([tr EXCEPT !.status = "passed",
                         !.reason = reason,
                         !.tokenUsage = IF tokenUsage # NoUsage
                                        THEN tokenUsage ELSE @])

markPassed(tr, reason, tokenUsage) ==
  IF tr.status # "running"
  THEN Throw(ErrPass, tr)
  ELSE Return([tr EXCEPT !.status = "passed",
                         !.reason = reason,
                         !.tokenUsage = IF tokenUsage # NoUsage
                                        THEN tokenUsage ELSE @])

\* bug variant: the flag is set before the delegation to markPassed
markPassedFromCache_flagFirst(tr, reason) ==
  LET flagged == [tr EXCEPT !.executedFromCache = TRUE]
      r == markPassed(flagged, reason, NoUsage)
  IN r

markPassedFromCache(tr, reason) ==
  LET r == markPassed(tr, reason, NoUsage)
  IN IF r.thrown # NoError
     THEN r
     ELSE Return([r.run EXCEPT !.executedFromCache = TRUE])

\* bug variant: the reason of the failure is dropped
markFailed_noReason(tr, reason, tokenUsage) ==
  Return([tr EXCEPT !.status = "failed",
                    !.tokenUsage = IF tokenUsage # NoUsage
                                   THEN tokenUsage ELSE @])

\* bug variant: failing is only accepted from running
markFailed_guarded(tr, reason, tokenUsage) ==
  IF tr.status # "running"
  THEN Throw("Can only fail from running state", tr)
  ELSE Return([tr EXCEPT !.status = "failed",
                         !.reason = reason,
                         !.tokenUsage = IF tokenUsage # NoUsage
                                        THEN tokenUsage ELSE @])

markFailed(tr, reason, tokenUsage) ==
  Return([tr EXCEPT !.status = "failed",
                    !.reason = reason,
                    !.tokenUsage = IF tokenUsage # NoUsage
                                   THEN tokenUsage ELSE @])

addStep(tr, step) == [tr EXCEPT !.steps = Append(@, step)]

\* a copy of the step log
getSteps(tr) == [i \in 1..Len(tr.steps) |-> tr.steps[i]]

\* an array a caller holds: its elements, and whether it is the very array
\* object the TestRun keeps in its steps field
ArrayRef(items, own) == [held |-> TRUE, items |-> items, own |-> own]
NoArray == [held |-> FALSE, items |-> <<>>, own |-> FALSE]

\* bug variant: the steps field itself is handed out
getStepsResult_own(tr) == ArrayRef(tr.steps, TRUE)

\* the array getSteps returns: [...this.steps] is a new array object
getStepsResult(tr) == ArrayRef(getSteps(tr), FALSE)

\* Array.prototype.pop on an array a caller holds
pop(items) == IF Len(items) = 0 THEN items ELSE SubSeq(items, 1, Len(items) - 1)

(***************************************************************************)
(* Cache entries  (types/cache.ts CacheEntry, TestRun.fromCache)           *)
(***************************************************************************)
\* JSON values of metadata.version: a number, a string (legacy entries) or
\* absent
Num(n) == [type |-> "number", value |-> n]
Str(s) == [type |-> "string", value |-> s]
Undefined == [type |-> "undefined"]

\* parseInt(s, 10) on the strings the model uses: the integer written by
\* the leading digits of s, whatever follows them, and NaN when s does not
\* start with a digit; NaN is modelled as -1
NaN == 0 - 1
parseInt(s) ==
  CASE s = "0" -> 0
    [] s = "1" -> 1
    [] s = "2" -> 2
    [] s = "3" -> 3
    [] s = "2abc" -> 2
    [] OTHER -> NaN

\* `x || 0` on a number: NaN and 0 are falsy
OrZero(n) == IF n = NaN \/ n = 0 THEN 0 ELSE n

\* bug variant: a string-typed version is not parsed
coerceVersion_stringIsZero(v) ==
  IF v.type = "number" THEN OrZero(v.value) ELSE 0

\* testRun.version as fromCache computes it
coerceVersion(v) ==
  IF v.type = "string" THEN OrZero(parseInt(v.value))
  ELSE IF v.type = "number" THEN OrZero(v.value)
  ELSE 0

\* bug variant: the recorded steps are not restored
fromCache_noSteps(cacheEntry) ==
  LET created == NewTestRun(cacheEntry.metadata.runId,
                            cacheEntry.metadata.timestamp,
                            cacheEntry.metadata.executedFromCache)
  IN [created EXCEPT !.version = coerceVersion(cacheEntry.metadata.version),
                     !.status = cacheEntry.metadata.status,
                     !.reason = cacheEntry.metadata.reason,
                     !.tokenUsage = cacheEntry.metadata.tokenUsage]

fromCache(cacheEntry) ==
  LET created == NewTestRun(cacheEntry.metadata.runId,
                            cacheEntry.metadata.timestamp,
                            cacheEntry.metadata.executedFromCache)
  IN [created EXCEPT !.version = coerceVersion(cacheEntry.metadata.version),
                     !.status = cacheEntry.metadata.status,
                     !.reason = cacheEntry.metadata.reason,
                     !.tokenUsage = cacheEntry.metadata.tokenUsage,
                     !.steps = cacheEntry.data.steps]

(***************************************************************************)
(* TestRunRepository  (core/runner/test-run-repository.ts), as described by *)
(* the specification of the Cache Store and exercised by the repository's  *)
(* test suite.                                                             *)
(***************************************************************************)
\* the CacheEntry document saveRun writes for a run
toCacheEntry(tr) ==
  [metadata |-> [timestamp |-> tr.timestamp,
                 version |-> Num(VERSION),
                 status |-> tr.status,
                 reason |-> tr.reason,
                 tokenUsage |-> tr.tokenUsage,
                 runId |-> tr.runId,
                 executedFromCache |-> tr.executedFromCache],
   data |-> [steps |-> getSteps(tr)]]

\* getRuns on a cold repository: every entry file of the identifier, in
\* directory order, through fromCache
loadRuns(files) == [i \in 1..Len(files) |-> fromCache(files[i])]

\* no memoized runs yet
NoMemo == [loaded |-> FALSE, runs |-> <<>>]
Memo(runs) == [loaded |-> TRUE, runs |-> runs]

\* getRuns: the memoized collection, loaded on first use
getRuns(memo, files) == IF memo.loaded THEN memo.runs ELSE loadRuns(files)

\* a run that may be replayed
IsEligible(r) ==
  /\ r.status = "passed"
  /\ r.version = VERSION
  /\ r.executedFromCache = FALSE

\* null
NoRun == [status |-> "none", runId |-> 0 - 1, timestamp |-> 0 - 1,
          steps |-> <<>>, tokenUsage |-> ZeroUsage, version |-> 0,
          executedFromCache |-> FALSE, reason |-> NoReason]

\* bug variant: the first eligible run is taken
getLatestPassedRun_first(runs) ==
  LET eligible == SelectSeq(runs, IsEligible)
  IN IF Len(eligible) = 0 THEN NoRun ELSE eligible[1]

\* getLatestPassedRun: the last eligible run in enumeration order, or null
getLatestPassedRun(runs) ==
  LET eligible == SelectSeq(runs, IsEligible)
  IN IF Len(eligible) = 0 THEN NoRun ELSE eligible[Len(eligible)]

\* the file of a run is named by its runId: writing replaces a file of the
\* same name, otherwise the directory gets a new file
writeEntry(files, entry) ==
  IF \E i \in 1..Len(files) : files[i].metadata.runId = entry.metadata.runId
  THEN [i \in 1..Len(files) |->
          IF files[i].metadata.runId = entry.metadata.runId THEN entry ELSE files[i]]
  ELSE Append(files, entry)

\* bug variant: the entry is written without the lock
saveRun_ignoresLock(files, tr, lockAcquired) == writeEntry(files, toCacheEntry(tr))

\* saveRun: skipped when the lock is not acquired
saveRun(files, tr, lockAcquired) ==
  IF ~lockAcquired THEN files ELSE writeEntry(files, toCacheEntry(tr))

\* engine processes sharing one cache directory, and the test identifiers
\* they save runs for
MaxProcs == 2
Procs == 1..MaxProcs
Identifiers == {"login", "checkout"}
NoHolder == 0

\* bug variant: one lock file for the whole cache directory
lockFileName_shared(identifier) == "cache.lock"

\* the lock file of a repository is named after its test identifier
lockFileName(identifier) == identifier \o ".lock"

LockFiles == {lockFileName(id) : id \in Identifiers}

\* acquireLock: the lock file is created exclusively; the attempt fails when
\* the file exists
acquireLock(locks, identifier, p) ==
  IF locks[lockFileName(identifier)] = NoHolder
  THEN [acquired |-> TRUE, locks |-> [locks EXCEPT ![lockFileName(identifier)] = p]]
  ELSE [acquired |-> FALSE, locks |-> locks]

\* releaseLock: the lock file is removed
releaseLock(locks, identifier) ==
  [locks EXCEPT ![lockFileName(identifier)] = NoHolder]

\* bug variant: the lock is released only after a successful write
saveRunFinally_onlyOnSuccess(locks, identifier, written) ==
  IF written THEN releaseLock(locks, identifier) ELSE locks

\* the end of a saveRun call that had acquired the lock: the lock is
\* released whether or not the entry was written
saveRunFinally(locks, identifier, written) == releaseLock(locks, identifier)

\* deleteRun for a set of run ids
deleteRuns(files, ids) ==
  LET Keep(e) == e.metadata.runId \notin ids
  IN SelectSeq(files, Keep)

\* bug variant: an outdated run that passed is spared
retentionDeletes_sparesOutdatedPassed(runs) ==
  LET all == {runs[i] : i \in 1..Len(runs)}
      outdated == {r \in all : r.version # VERSION /\ r.status # "passed"}
      current == all \ outdated
      nonCache == {r \in current : ~r.executedFromCache}
      latestPassed == getLatestPassedRun(runs)
      newest == CHOOSE r \in nonCache : \A o \in nonCache : o.timestamp <= r.timestamp
      kept == IF latestPassed # NoRun THEN {latestPassed}
              ELSE IF nonCache = {} THEN {}
              ELSE {newest}
  IN outdated \cup (nonCache \ kept)

\* bug variant: every passed run is kept
retentionDeletes_keepsEveryPassed(runs) ==
  LET all == {runs[i] : i \in 1..Len(runs)}
      outdated == {r \in all : r.version # VERSION}
      current == all \ outdated
      nonCache == {r \in current : ~r.executedFromCache}
      latestPassed == getLatestPassedRun(runs)
      newest == CHOOSE r \in nonCache : \A o \in nonCache : o.timestamp <= r.timestamp
      kept == IF latestPassed # NoRun THEN {r \in nonCache : r.status = "passed"}
              ELSE IF nonCache = {} THEN {}
              ELSE {newest}
  IN outdated \cup (nonCache \ kept)

\* bug variant: without a passed run, the run enumerated last is kept
retentionDeletes_keepsLastEnumerated(runs) ==
  LET all == {runs[i] : i \in 1..Len(runs)}
      outdated == {r \in all : r.version # VERSION}
      current == all \ outdated
      nonCache == {r \in current : ~r.executedFromCache}
      latestPassed == getLatestPassedRun(runs)
      lastIdx == CHOOSE i \in 1..Len(runs) :
                   runs[i] \in nonCache /\ \A j \in 1..Len(runs) : runs[j] \in nonCache => j <= i
      newest == runs[lastIdx]
      kept == IF latestPassed # NoRun THEN {latestPassed}
              ELSE IF nonCache = {} THEN {}
              ELSE {newest}
  IN outdated \cup (nonCache \ kept)

\* bug variant: cache-executed runs count as candidates for the newest run
retentionDeletes_countsCacheExecuted(runs) ==
  LET all == {runs[i] : i \in 1..Len(runs)}
      outdated == {r \in all : r.version # VERSION}
      current == all \ outdated
      nonCache == {r \in current : ~r.executedFromCache}
      latestPassed == getLatestPassedRun(runs)
      newest == CHOOSE r \in current : \A o \in current : o.timestamp <= r.timestamp
      kept == IF latestPassed # NoRun THEN {latestPassed}
              ELSE IF nonCache = {} THEN {}
              ELSE {newest}
  IN outdated \cup (nonCache \ kept)

\* the runs applyRetentionPolicy deletes, given the loaded runs
\* bug variant: the passed run that is kept is the one with the greatest
\* timestamp, not the one getLatestPassedRun returns
retentionDeletes_keepsNewestPassed(runs) ==
  LET all == {runs[i] : i \in 1..Len(runs)}
      outdated == {r \in all : r.version # VERSION}
      current == all \ outdated
      nonCache == {r \in current : ~r.executedFromCache}
      passed == {r \in nonCache : r.status = "passed"}
      newestPassed == CHOOSE r \in passed : \A o \in passed : o.timestamp <= r.timestamp
      newest == CHOOSE r \in nonCache : \A o \in nonCache : o.timestamp <= r.timestamp
      kept == IF passed # {} THEN {newestPassed}
              ELSE IF nonCache = {} THEN {}
              ELSE {newest}
  IN outdated \cup (nonCache \ kept)

retentionDeletes(runs) ==
  LET all == {runs[i] : i \in 1..Len(runs)}
      outdated == {r \in all : r.version # VERSION}
      current == all \ outdated
      nonCache == {r \in current : ~r.executedFromCache}
      latestPassed == getLatestPassedRun(runs)
      newest == CHOOSE r \in nonCache : \A o \in nonCache : o.timestamp <= r.timestamp
      kept == IF latestPassed # NoRun THEN {latestPassed}
              ELSE IF nonCache = {} THEN {}
              ELSE {newest}
  IN outdated \cup (nonCache \ kept)

applyRetentionPolicy(files, runs) ==
  deleteRuns(files, {r.runId : r \in retentionDeletes(runs)})

(***************************************************************************)
(* State.                                                                  *)
(***************************************************************************)
VARIABLES
  testRun,       \* the TestRun under execution (NoRun before TestRun.create)
  call,          \* SpecTestRun: the last method called on testRun, with its arguments
  thrown,        \* SpecTestRun: the exception that call raised, or NoError
  returned,      \* SpecTestRun: the array the last getSteps call returned (NoArray before)
  added,         \* SpecTestRun: the steps addStep was called with, in call order
  lockHolder,    \* SpecLocks: per identifier, the process whose lock file exists (NoHolder if none)
  saving,        \* SpecLocks: per process, the position of its saveRun call
  cacheDir,      \* SpecLocks: per identifier, the entry files of the shared cache directory
  created,       \* SpecCreate: the TestRuns TestRun.create returned, [identifier, run] each
  config,        \* config.caching.enabled
  testCase,      \* the test case of the file: [directExecution]
  disk,          \* cache directory: the entry files of the identifier, in directory order
  testRuns,      \* the repository's memoized runs of this process (NoMemo before getRuns)
  pc,            \* position of the process in executeTestFile / executeTest / runCachedTest
  skipCache,     \* the skipCache argument of the current executeTest invocation
  clock,         \* Date.now()
  page,          \* the URL the page shows
  initialState,  \* window_info.url of the initial observation
  latestRun,     \* runCachedTest: the run picked for replay
  filteredSteps, \* runCachedTest: its steps without screenshots
  stepIdx,       \* runCachedTest: index of the next step of filteredSteps
  executed,      \* runCachedTest: its calls of browserTool.execute, [idx, input, ok] each
  observed,      \* runCachedTest: the fingerprints it recomputed, [idx, componentStr] each
  error,         \* the exception in flight (NoException when none)
  cacheError,    \* type of the CacheError runCachedTest raised for this TestRun, or NoError
  aiResponse,    \* the Action Decider's response of this executeTest
  events,        \* what executeTest did for this TestRun, in order
  fileResults,   \* statuses the reporter received by onFileEnd
  suite,         \* SpecSuite: the execute call: matched files, loop positions, result
  registry,      \* SpecSuite: global.__shortest__.registry: hook lists, currentFilePath
  browser,       \* SpecSuite: BrowserManager: whether browser and context are open
  reporter,      \* SpecSuite: what the reporter was told: errors, announced and ended tests
  trace          \* SpecSuite: the steps executeTestFile took, [op, file, test, ok] each

varsTestRun == <<testRun, call, thrown, returned, added>>
varsGetSteps == <<returned, added>>
varsLocks == <<lockHolder, saving, cacheDir, created>>
varsSuite == <<suite, registry, browser, reporter, trace>>
varsRunner == <<config, testCase, disk, testRuns, pc, skipCache, clock, page,
                initialState, latestRun, filteredSteps, stepIdx, executed,
                observed, error, cacheError, aiResponse, events, fileResults,
                lockHolder, saving, cacheDir, created, suite, registry, browser,
                reporter, trace>>
vars == <<testRun, call, thrown, varsGetSteps, varsLocks, varsSuite, config, testCase, disk, testRuns, pc,
          skipCache, clock, page, initialState, latestRun, filteredSteps,
          stepIdx, executed, observed, error, cacheError, aiResponse, events,
          fileResults>>

\* exceptions
CacheError(type) == [kind |-> "CacheError", type |-> type]
ShortestError == [kind |-> "ShortestError", type |-> ""]
PlainError == [kind |-> "Error", type |-> ""]
NoException == [kind |-> NoError, type |-> ""]

NoResponse == [status |-> "none", reason |-> NoReason, usage |-> NoUsage]

StartUrl == "/start"
OtherUrl == "/next"

\* Entry files earlier processes left in the cache directory.  The entry at
\* position i of the directory has runId and timestamp i.
SeedEntry(i, version, status, executedFromCache, steps) ==
  [metadata |-> [timestamp |-> i, version |-> version, status |-> status,
                 reason |-> "seed " \o status, tokenUsage |-> ZeroUsage,
                 runId |-> i, executedFromCache |-> executedFromCache],
   data |-> [steps |-> steps]]

\* a replayable entry with any recorded step log; a failed entry; an entry
\* of an older engine release (string-typed version); the entry of a run
\* that itself passed from cache
SeedEntries(i) ==
  {SeedEntry(i, Num(VERSION), "passed", FALSE, steps) : steps \in SeqsUpTo(Steps, MaxSteps)}
  \cup {SeedEntry(i, Num(VERSION), "failed", FALSE, <<Step("left_click", FALSE, "")>>)}
  \cup {SeedEntry(i, Str("1"), "passed", FALSE, <<Step("left_click", FALSE, "")>>)}
  \cup {SeedEntry(i, Num(VERSION), "passed", TRUE, <<>>)}

\* the entries earlier processes left before the last one: of every kind,
\* the replayable one with a one-step log
OlderEntries(i) ==
  {SeedEntry(i, Num(VERSION), "passed", FALSE, <<Step("left_click", FALSE, "")>>),
   SeedEntry(i, Num(VERSION), "failed", FALSE, <<Step("left_click", FALSE, "")>>),
   SeedEntry(i, Str("1"), "passed", FALSE, <<Step("left_click", FALSE, "")>>),
   SeedEntry(i, Num(VERSION), "passed", TRUE, <<>>)}

RECURSIVE OlderDisksOfLen(_)
OlderDisksOfLen(n) ==
  IF n = 0 THEN {<<>>}
  ELSE {Append(d, e) : d \in OlderDisksOfLen(n - 1), e \in OlderEntries(n)}

SeedDisksOfLen(n) ==
  IF n = 0 THEN {<<>>}
  ELSE {Append(d, e) : d \in OlderDisksOfLen(n - 1), e \in SeedEntries(n)}

SeedDisks == UNION {SeedDisksOfLen(n) : n \in 0..MaxRuns}

\* no method called yet
NoCall == [op |-> "create", reason |-> NoReason, tokenUsage |-> NoUsage]

\* a process outside saveRun; `result` tells how its last call ended, and
\* `identifier` which lock a skipped call had asked for
NotSaving(identifier, result) ==
  [pc |-> "idle", identifier |-> identifier, result |-> result]

\* no failure of saveRun or applyRetentionPolicy logged since the last
\* TestRun was created
NoLogged == [op |-> "", test |-> 0]

\* execute not called yet: the arguments and locals of execute and
\* executeTestFile, the way execute ended (result), and what happened so
\* far: the persistence failure last logged for the previous test case,
\* whether a TestRun ended failed, whether a file raised an error; and the
\* runner's testFileContext (index.ts:180), a page being named by the file
\* whose browser context it belongs to, 0 standing for null
NoSuite ==
  [files |-> 0, lineNumber |-> FALSE, fileIdx |-> 0, testsToRun |-> 0,
   testIdx |-> 0, result |-> "none", logged |-> NoLogged,
   runFailed |-> FALSE, fileFailed |-> FALSE, testFileContext |-> 0]

\* the registry as index.ts creates it (packages/shortest/src/index.ts:33-42);
\* a hook is named by the file that registered it, currentFilePath by the
\* index of the file, 0 standing for ""
NewRegistry ==
  [beforeAllFns |-> <<>>, afterAllFns |-> <<>>, beforeEachFns |-> <<>>,
   afterEachFns |-> <<>>, currentFilePath |-> 0]

\* BrowserManager before launch: neither browser nor context
ClosedBrowser == [browser |-> FALSE, context |-> FALSE]

\* a reporter that was told nothing yet
NewReporter ==
  [errors |-> <<>>, testsCount |-> 0, passedTestsCount |-> 0,
   failedTestsCount |-> 0]

\* the runner's variables before a process starts
RunnerIdle ==
  /\ suite = NoSuite
  /\ registry = NewRegistry
  /\ browser = ClosedBrowser
  /\ reporter = NewReporter
  /\ trace = <<>>
  /\ lockHolder = [f \in LockFiles |-> NoHolder]
  /\ saving = [p \in Procs |-> NotSaving("", "none")]
  /\ cacheDir = [id \in Identifiers |-> <<>>]
  /\ created = <<>>
  /\ testRuns = NoMemo
  /\ pc = "idle"
  /\ skipCache = FALSE
  /\ page = StartUrl
  /\ initialState = ""
  /\ latestRun = NoRun
  /\ filteredSteps = <<>>
  /\ stepIdx = 0
  /\ executed = <<>>
  /\ observed = <<>>
  /\ error = NoException
  /\ cacheError = NoError
  /\ aiResponse = NoResponse
  /\ events = <<>>
  /\ fileResults = <<>>

(***************************************************************************)
(* TestRunner  (core/framework-detector/index.ts, "index.ts" below)        *)
(***************************************************************************)
\* the filter of runCachedTest: screenshots are not replayed
NotScreenshot(step) == step.action # "screenshot"

\* BrowserTool.execute rejects a mouse_move without coordinates
ExecutorAccepts(step) == ~(step.action = "mouse_move" /\ ~step.coordinate)

\* bug variant: a run without replayable steps is replayed
prepareReplay_noEmptyCheck(runs) ==
  LET latest == getLatestPassedRun(runs)
      steps == SelectSeq(latest.steps, NotScreenshot)
  IN IF latest = NoRun
     THEN [latestRun |-> NoRun, filteredSteps |-> <<>>, error |-> CacheError("not-found")]
     ELSE [latestRun |-> latest, filteredSteps |-> steps, error |-> NoException]

\* runCachedTest before the replay loop (index.ts:398-423): the run picked
\* from the loaded runs, its steps without screenshots, and the CacheError
\* raised when there is no such run or no such step
prepareReplay(runs) ==
  LET latest == getLatestPassedRun(runs)
      steps == SelectSeq(latest.steps, NotScreenshot)
  IN IF latest = NoRun
     THEN [latestRun |-> NoRun, filteredSteps |-> <<>>, error |-> CacheError("not-found")]
     ELSE [latestRun |-> latest, filteredSteps |-> steps,
           error |-> IF Len(steps) = 0 THEN CacheError("invalid") ELSE NoException]

\* bug variant: the fingerprint of a pointer move is not validated
replayStep_noValidation(step, componentStr, executes) ==
  [validated |-> FALSE, called |-> TRUE,
   error |-> IF executes THEN NoException ELSE CacheError("invalid")]

\* bug variant: the fingerprint is compared after the step was executed
replayStep_validateAfterExecute(step, componentStr, executes) ==
  LET validated == step.action = "mouse_move" /\ step.coordinate
  IN [validated |-> validated, called |-> TRUE,
      error |-> IF executes /\ ~(validated /\ componentStr # step.componentStr)
                THEN NoException ELSE CacheError("invalid")]

\* One iteration of the replay loop for `step`, when the page shows
\* componentStr at the step's coordinates and browserTool.execute succeeds
\* (executes) or throws: whether the fingerprint was recomputed, whether
\* execute was called, and the error that ends the replay if any.
replayStep(step, componentStr, executes) ==
  LET validated == step.action = "mouse_move" /\ step.coordinate
  IN IF validated /\ componentStr # step.componentStr
     THEN [validated |-> TRUE, called |-> FALSE, error |-> CacheError("invalid")]
     ELSE [validated |-> validated, called |-> TRUE,
           error |-> IF executes THEN NoException ELSE CacheError("invalid")]

\* bug variant: only an invalid cache falls back to the live path
IsCaughtForFallback_onlyInvalid(e) == e.kind = "CacheError" /\ e.type = "invalid"

\* the catch clause of the cached branch of executeTest handles the error
\* (falls back to the live path) or rethrows it
IsCaughtForFallback(e) == e.kind = "CacheError"

\* the reason markFailed gets when afterFn throws msg on the cached branch
cachedAfterFailReason(tr, msg) ==
  IF tr.status = "failed"
  THEN "AI: " \o tr.reason \o ", After: " \o msg
  ELSE msg

\* bug variant: the Action Decider's reason is prepended whatever it decided
liveAfterFailReason_alwaysComposes(response, msg) ==
  "AI: " \o response.reason \o ", After: " \o msg

\* the reason markFailed gets when afterFn throws msg on the live branch
liveAfterFailReason(response, msg) ==
  IF response.status = "failed"
  THEN "AI: " \o response.reason \o ", After: " \o msg
  ELSE msg

\* testRun.addStep for each step the Action Decider took
RECURSIVE addSteps(_, _)
addSteps(tr, steps) ==
  IF steps = <<>> THEN tr ELSE addSteps(addStep(tr, Head(steps)), Tail(steps))

\* outcomes of a hook list or a callback of the test file
HookOutcomes == {"ok", "Error", "ShortestError"}
CallbackOutcomes == {"absent", "returns", "throws"}
ErrorOf(out) == IF out = "ShortestError" THEN ShortestError ELSE PlainError

AfterMsg == "after hook failed"
BeforeMsg == "before hook failed"
FnMsg == "fn failed"

Init ==
  /\ testRun = NoRun
  /\ call = NoCall
  /\ thrown = NoError
  /\ returned = NoArray
  /\ added = <<>>
  /\ config \in {[caching |-> [enabled |-> b]] : b \in BOOLEAN}
  /\ testCase \in {[directExecution |-> b] : b \in BOOLEAN}
  /\ disk \in SeedDisks
  /\ clock = MaxRuns + 1
  /\ RunnerIdle

\* executeTestFile up to the browser launch (index.ts:467-507)
Launch ==
  /\ pc = "idle"
  /\ \E launched \in BOOLEAN :
       IF launched
       THEN pc' = "beforeAll" /\ error' = NoException
       ELSE pc' = "catch" /\ error' = ShortestError
  /\ UNCHANGED <<testRun, call, thrown, varsGetSteps, varsLocks, varsSuite, config, testCase, disk, testRuns,
                 skipCache, clock, page, initialState, latestRun,
                 filteredSteps, stepIdx, executed, observed, cacheError,
                 aiResponse, events, fileResults>>

\* a hook list runs at position `at`; the next position is `next`
RunHooks(at, next) ==
  /\ pc = at
  /\ \E out \in HookOutcomes :
       IF out = "ok"
       THEN pc' = next /\ error' = error
       ELSE pc' = "finally" /\ error' = ErrorOf(out)
  /\ UNCHANGED <<testRun, call, thrown, varsGetSteps, varsLocks, varsSuite, config, testCase, disk, testRuns,
                 skipCache, clock, page, initialState, latestRun,
                 filteredSteps, stepIdx, executed, observed, cacheError,
                 aiResponse, events, fileResults>>

\* index.ts:510-512
BeforeAllHooks == RunHooks("beforeAll", "beforeEach")
\* index.ts:520-522
BeforeEachHooks == RunHooks("beforeEach", "create")
\* index.ts:536-540
AfterEachHooks == RunHooks("afterEach", "saveRun")
\* index.ts:558-560
AfterAllHooks == RunHooks("afterAll", "finally")

\* TestRun.create, markRunning and the call of executeTest (index.ts:524-528)
CreateTestRun ==
  /\ pc = "create"
  /\ LET r == markRunning(create(clock))
     IN /\ testRun' = r.run
        /\ IF r.thrown = NoError
           THEN pc' = "executeTest" /\ error' = error
           ELSE pc' = "finally" /\ error' = ShortestError
  /\ clock' = clock + 1
  /\ skipCache' = FALSE
  /\ UNCHANGED <<call, thrown, varsGetSteps, varsLocks, varsSuite, config, testCase, disk, testRuns, page,
                 initialState, latestRun, filteredSteps, stepIdx, executed,
                 observed, cacheError, aiResponse, events, fileResults>>

\* bug variant: the error of the callback leaves executeTest
ExecuteDirect_rethrows ==
  /\ pc = "executeTest"
  /\ testCase.directExecution
  /\ \E fnThrows \in BOOLEAN :
       IF fnThrows
       THEN /\ testRun' = testRun
            /\ error' = PlainError
            /\ pc' = "finally"
       ELSE /\ testRun' = markPassed(testRun, "Direct execution successful", NoUsage).run
            /\ error' = error
            /\ pc' = "afterEach"
  /\ UNCHANGED <<call, thrown, varsGetSteps, varsLocks, varsSuite, config, testCase, disk, testRuns, skipCache,
                 clock, page, initialState, latestRun, filteredSteps, stepIdx,
                 executed, observed, cacheError, aiResponse, events,
                 fileResults>>

\* executeTest, direct execution (index.ts:237-250)
ExecuteDirect ==
  /\ pc = "executeTest"
  /\ testCase.directExecution
  /\ \E fnThrows \in BOOLEAN :
       LET passed == markPassed(testRun, "Direct execution successful", NoUsage)
           message == IF fnThrows THEN FnMsg ELSE passed.thrown
       IN testRun' = IF ~fnThrows /\ passed.thrown = NoError
                     THEN passed.run
                     ELSE markFailed(testRun, message, NoUsage).run
  /\ pc' = "afterEach"
  /\ UNCHANGED <<call, thrown, varsGetSteps, varsLocks, varsSuite, config, testCase, disk, testRuns, skipCache,
                 clock, page, initialState, latestRun, filteredSteps, stepIdx,
                 executed, observed, error, cacheError, aiResponse, events,
                 fileResults>>

\* executeTest, the initial observation and the choice of the branch
\* (index.ts:252-267, 297-302)
InitialObservation ==
  /\ pc = "executeTest"
  /\ ~testCase.directExecution
  /\ \E out \in HookOutcomes :
       IF out = "ok"
       THEN /\ initialState' = page
            /\ pc' = IF config.caching.enabled /\ ~skipCache
                     THEN "runCachedTest" ELSE "beforeFn"
            /\ error' = error
       ELSE /\ initialState' = initialState
            /\ pc' = "finally"
            /\ error' = ErrorOf(out)
  /\ UNCHANGED <<testRun, call, thrown, varsGetSteps, varsLocks, varsSuite, config, testCase, disk, testRuns,
                 skipCache, clock, page, latestRun, filteredSteps, stepIdx,
                 executed, observed, cacheError, aiResponse, events,
                 fileResults>>

\* bug variant: the TestRun is marked before its steps are replayed
RunCachedTest_marksFirst ==
  /\ pc = "runCachedTest"
  /\ LET runs == getRuns(testRuns, disk)
         r == prepareReplay(runs)
     IN /\ testRuns' = Memo(runs)
        /\ latestRun' = r.latestRun
        /\ filteredSteps' = r.filteredSteps
        /\ error' = r.error
        /\ IF r.error = NoException
           THEN /\ stepIdx' = 1
                /\ cacheError' = cacheError
                /\ pc' = "replay"
           ELSE /\ stepIdx' = 0
                /\ cacheError' = r.error.type
                /\ pc' = "executeTestCatch"
  /\ events' = Append(events, "runCachedTest")
  /\ testRun' = markPassedFromCache(testRun, "All actions successfully replayed from cache").run
  /\ UNCHANGED <<call, thrown, varsGetSteps, varsLocks, varsSuite, config, testCase, disk, skipCache,
                 clock, page, initialState, executed, observed, aiResponse,
                 fileResults>>

\* runCachedTest up to the replay loop (index.ts:392-423)
RunCachedTest ==
  /\ pc = "runCachedTest"
  /\ LET runs == getRuns(testRuns, disk)
         r == prepareReplay(runs)
     IN /\ testRuns' = Memo(runs)
        /\ latestRun' = r.latestRun
        /\ filteredSteps' = r.filteredSteps
        /\ error' = r.error
        /\ IF r.error = NoException
           THEN /\ stepIdx' = 1
                /\ cacheError' = cacheError
                /\ pc' = "replay"
           ELSE /\ stepIdx' = 0
                /\ cacheError' = r.error.type
                /\ pc' = "executeTestCatch"
  /\ events' = Append(events, "runCachedTest")
  /\ UNCHANGED <<testRun, call, thrown, varsGetSteps, varsLocks, varsSuite, config, testCase, disk, skipCache,
                 clock, page, initialState, executed, observed, aiResponse,
                 fileResults>>

\* one iteration of the replay loop (index.ts:425-455)
ReplayStep ==
  /\ pc = "replay"
  /\ stepIdx <= Len(filteredSteps)
  /\ LET step == filteredSteps[stepIdx]
     IN \E componentStr \in Fingerprints, executes \in BOOLEAN :
          LET r == replayStep(step, componentStr, executes /\ ExecutorAccepts(step))
          IN /\ observed' = IF r.validated
                            THEN Append(observed, [idx |-> stepIdx, componentStr |-> componentStr])
                            ELSE observed
             /\ executed' = IF r.called
                            THEN Append(executed, [idx |-> stepIdx, input |-> step,
                                                   ok |-> r.error = NoException])
                            ELSE executed
             /\ page' = IF r.called /\ r.error = NoException /\ step.action = "left_click"
                        THEN OtherUrl ELSE page
             /\ IF r.error = NoException
                THEN /\ stepIdx' = stepIdx + 1
                     /\ pc' = "replay"
                     /\ error' = error
                     /\ cacheError' = cacheError
                ELSE /\ stepIdx' = stepIdx
                     /\ pc' = "executeTestCatch"
                     /\ error' = r.error
                     /\ cacheError' = r.error.type
  /\ UNCHANGED <<testRun, call, thrown, varsGetSteps, varsLocks, varsSuite, config, testCase, disk, testRuns,
                 skipCache, clock, initialState, latestRun, filteredSteps,
                 aiResponse, events, fileResults>>

\* the fingerprint query of the replay loop throws (index.ts:432-433)
ReplayFingerprintFails ==
  /\ pc = "replay"
  /\ stepIdx <= Len(filteredSteps)
  /\ filteredSteps[stepIdx].action = "mouse_move"
  /\ filteredSteps[stepIdx].coordinate
  /\ error' = PlainError
  /\ pc' = "executeTestCatch"
  /\ UNCHANGED <<testRun, call, thrown, varsGetSteps, varsLocks, varsSuite, config, testCase, disk, testRuns,
                 skipCache, clock, page, initialState, latestRun,
                 filteredSteps, stepIdx, executed, observed, cacheError,
                 aiResponse, events, fileResults>>

\* the end of runCachedTest (index.ts:457-461)
ReplayDone ==
  /\ pc = "replay"
  /\ stepIdx > Len(filteredSteps)
  /\ LET r == markPassedFromCache(testRun, "All actions successfully replayed from cache")
     IN /\ testRun' = r.run
        /\ IF r.thrown = NoError
           THEN pc' = "cachedAfterFn" /\ error' = error
           ELSE pc' = "executeTestCatch" /\ error' = ShortestError
  /\ UNCHANGED <<call, thrown, varsGetSteps, varsLocks, varsSuite, config, testCase, disk, testRuns, skipCache,
                 clock, page, initialState, latestRun, filteredSteps, stepIdx,
                 executed, observed, cacheError, aiResponse, events,
                 fileResults>>

\* afterFn on the cached branch (index.ts:270-286)
CachedAfterFn ==
  /\ pc = "cachedAfterFn"
  /\ \E out \in CallbackOutcomes :
       testRun' = IF out = "throws"
                  THEN markFailed(testRun, cachedAfterFailReason(testRun, AfterMsg), NoUsage).run
                  ELSE testRun
  /\ pc' = "afterEach"
  /\ UNCHANGED <<call, thrown, varsGetSteps, varsLocks, varsSuite, config, testCase, disk, testRuns, skipCache,
                 clock, page, initialState, latestRun, filteredSteps, stepIdx,
                 executed, observed, error, cacheError, aiResponse, events,
                 fileResults>>

\* bug variant: a CacheError fails the TestRun instead of starting the live
\* path
ExecuteTestCatch_failsTheRun ==
  /\ pc = "executeTestCatch"
  /\ IF IsCaughtForFallback(error)
     THEN /\ testRun' = markFailed(testRun, "cache error", NoUsage).run
          /\ error' = NoException
          /\ pc' = "afterEach"
     ELSE /\ pc' = "finally"
          /\ UNCHANGED <<testRun, error>>
  /\ latestRun' = NoRun
  /\ filteredSteps' = <<>>
  /\ stepIdx' = 0
  /\ executed' = <<>>
  /\ observed' = <<>>
  /\ UNCHANGED <<call, thrown, varsGetSteps, varsLocks, varsSuite, config, testCase, disk, testRuns,
                 clock, initialState, cacheError, aiResponse, fileResults,
                 page, events, skipCache>>

\* the catch clause of the cached branch (index.ts:287-296): a CacheError
\* sends the page back and re-enters executeTest with skipCache = true;
\* the locals and the call trace of the failed runCachedTest are gone
ExecuteTestCatch ==
  /\ pc = "executeTestCatch"
  /\ IF IsCaughtForFallback(error)
     THEN /\ page' = initialState
          /\ events' = Append(events, "goto")
          /\ skipCache' = TRUE
          /\ error' = NoException
          /\ pc' = "executeTest"
     ELSE /\ pc' = "finally"
          /\ UNCHANGED <<page, events, skipCache, error>>
  /\ latestRun' = NoRun
  /\ filteredSteps' = <<>>
  /\ stepIdx' = 0
  /\ executed' = <<>>
  /\ observed' = <<>>
  /\ UNCHANGED <<testRun, call, thrown, varsGetSteps, varsLocks, varsSuite, config, testCase, disk, testRuns,
                 clock, initialState, cacheError, aiResponse, fileResults>>

\* bug variant: executeTest goes on after the before callback threw
BeforeFn_goesOn ==
  /\ pc = "beforeFn"
  /\ \E out \in CallbackOutcomes :
       testRun' = IF out = "throws"
                  THEN markFailed(testRun, BeforeMsg, NoUsage).run
                  ELSE testRun
  /\ pc' = "runAction"
  /\ UNCHANGED <<call, thrown, varsGetSteps, varsLocks, varsSuite, config, testCase, disk, testRuns, skipCache,
                 clock, page, initialState, latestRun, filteredSteps, stepIdx,
                 executed, observed, error, cacheError, aiResponse, events,
                 fileResults>>

\* beforeFn on the live branch (index.ts:304-313)
BeforeFn ==
  /\ pc = "beforeFn"
  /\ \E out \in CallbackOutcomes :
       IF out = "throws"
       THEN /\ testRun' = markFailed(testRun, BeforeMsg, NoUsage).run
            /\ pc' = "afterEach"
       ELSE /\ testRun' = testRun
            /\ pc' = "runAction"
  /\ UNCHANGED <<call, thrown, varsGetSteps, varsLocks, varsSuite, config, testCase, disk, testRuns, skipCache,
                 clock, page, initialState, latestRun, filteredSteps, stepIdx,
                 executed, observed, error, cacheError, aiResponse, events,
                 fileResults>>

\* what the Action Decider may answer
AIStatuses == {"passed", "failed", "unknown"}
AIReason(status) == "AI says " \o status
\* the step log the Action Decider leaves on the TestRun
AILogs == {<<Step("mouse_move", TRUE, "<b/>"), Step("left_click", FALSE, "")>>}

\* the Action Decider's loop (index.ts:315-347): it appends the steps it
\* took to the TestRun and returns a verdict, or throws
RunAction ==
  /\ pc = "runAction"
  /\ events' = Append(events, "runAction")
  /\ \/ \E steps \in AILogs, status \in AIStatuses, usage \in Usages :
          /\ testRun' = addSteps(testRun, steps)
          /\ aiResponse' = [status |-> status, reason |-> AIReason(status), usage |-> usage]
          /\ pc' = "afterFn"
          /\ error' = error
     \/ /\ error' = PlainError
        /\ pc' = "finally"
        /\ UNCHANGED <<testRun, aiResponse>>
  /\ UNCHANGED <<call, thrown, varsGetSteps, varsLocks, varsSuite, config, testCase, disk, testRuns, skipCache,
                 clock, page, initialState, latestRun, filteredSteps, stepIdx,
                 executed, observed, cacheError, fileResults>>

\* afterFn on the live branch and the verdict (index.ts:349-385)
AfterFnAndVerdict ==
  /\ pc = "afterFn"
  /\ \E out \in CallbackOutcomes :
       LET verdict == IF aiResponse.status = "passed"
                      THEN markPassed(testRun, aiResponse.reason, aiResponse.usage)
                      ELSE IF aiResponse.status = "failed"
                      THEN markFailed(testRun, aiResponse.reason, aiResponse.usage)
                      ELSE Throw("Unexpected AI response status", testRun)
       IN IF out = "throws"
          THEN /\ testRun' = markFailed(testRun, liveAfterFailReason(aiResponse, AfterMsg),
                                        aiResponse.usage).run
               /\ pc' = "afterEach"
               /\ error' = error
          ELSE /\ testRun' = verdict.run
               /\ IF verdict.thrown = NoError
                  THEN pc' = "afterEach" /\ error' = error
                  ELSE pc' = "finally" /\ error' = ShortestError
  /\ UNCHANGED <<call, thrown, varsGetSteps, varsLocks, varsSuite, config, testCase, disk, testRuns, skipCache,
                 clock, page, initialState, latestRun, filteredSteps, stepIdx,
                 executed, observed, cacheError, aiResponse, events,
                 fileResults>>

\* saveRun of the finished TestRun (index.ts:542-544); the lock of the
\* identifier may be held by another engine process
SaveRun ==
  /\ pc = "saveRun"
  /\ \E lockAcquired \in BOOLEAN : disk' = saveRun(disk, testRun, lockAcquired)
  /\ pc' = "retention"
  /\ UNCHANGED <<testRun, call, thrown, varsGetSteps, varsLocks, varsSuite, config, testCase, testRuns, skipCache,
                 clock, page, initialState, latestRun, filteredSteps, stepIdx,
                 executed, observed, error, cacheError, aiResponse, events,
                 fileResults>>

\* applyRetentionPolicy; a failure is logged (index.ts:546-555)
ApplyRetentionPolicy ==
  /\ pc = "retention"
  /\ LET runs == getRuns(testRuns, disk)
     IN \/ /\ testRuns' = Memo(runs)
           /\ disk' = applyRetentionPolicy(disk, runs)
        \/ UNCHANGED <<testRuns, disk>>
  /\ pc' = "afterAll"
  /\ UNCHANGED <<testRun, call, thrown, varsGetSteps, varsLocks, varsSuite, config, testCase, skipCache, clock,
                 page, initialState, latestRun, filteredSteps, stepIdx,
                 executed, observed, error, cacheError, aiResponse, events,
                 fileResults>>

\* the end of executeTestFile: the finally block of the hooks-and-tests
\* part, which reports the file as passed (index.ts:561-574), then, when an
\* error is in flight, the catch clause (index.ts:575-587): a ShortestError
\* fails the file, any other error leaves the process
FileEnd ==
  /\ pc = "finally"
  /\ IF error = NoException
     THEN /\ fileResults' = Append(fileResults, "passed")
          /\ pc' = "done"
     ELSE IF error.kind \in {"ShortestError", "CacheError"}
     THEN /\ fileResults' = fileResults \o <<"passed", "failed">>
          /\ pc' = "done"
     ELSE /\ fileResults' = Append(fileResults, "passed")
          /\ pc' = "crashed"
  /\ UNCHANGED <<testRun, call, thrown, varsGetSteps, varsLocks, varsSuite, config, testCase, disk, testRuns,
                 skipCache, clock, page, initialState, latestRun,
                 filteredSteps, stepIdx, executed, observed, error,
                 cacheError, aiResponse, events>>

\* the catch clause of executeTestFile for an error raised before the
\* hooks-and-tests part (index.ts:575-587)
FileCatch ==
  /\ pc = "catch"
  /\ IF error.kind \in {"ShortestError", "CacheError"}
     THEN /\ fileResults' = Append(fileResults, "failed")
          /\ pc' = "done"
     ELSE /\ fileResults' = fileResults
          /\ pc' = "crashed"
  /\ UNCHANGED <<testRun, call, thrown, varsGetSteps, varsLocks, varsSuite, config, testCase, disk, testRuns,
                 skipCache, clock, page, initialState, latestRun,
                 filteredSteps, stepIdx, executed, observed, error,
                 cacheError, aiResponse, events>>

Next ==
  \/ Launch
  \/ BeforeAllHooks
  \/ BeforeEachHooks
  \/ CreateTestRun
  \/ ExecuteDirect
  \/ InitialObservation
  \/ RunCachedTest
  \/ ReplayStep
  \/ ReplayFingerprintFails
  \/ ReplayDone
  \/ CachedAfterFn
  \/ ExecuteTestCatch
  \/ BeforeFn
  \/ RunAction
  \/ AfterFnAndVerdict
  \/ AfterEachHooks
  \/ SaveRun
  \/ ApplyRetentionPolicy
  \/ AfterAllHooks
  \/ FileEnd
  \/ FileCatch

Spec == Init /\ [][Next]_vars

(***************************************************************************)
(* SpecRepository: a repository over any cache directory, asked for the    *)
(* run to replay.                                                          *)
(***************************************************************************)
\* most entry files of the identifier in the directory
MaxLoaded == 3

\* the entry files a directory may hold at position i: of the current or
\* the previous version with any status, cache-executed or not; and, passed
\* and not cache-executed (so that the version alone decides whether the
\* run is eligible), with a string for version or without version
RepoEntries(i) ==
  {SeedEntry(i, version, status, executedFromCache, <<Step("left_click", FALSE, "")>>) :
     version \in {Num(VERSION), Num(VERSION - 1)},
     status \in {"passed", "failed"},
     executedFromCache \in BOOLEAN}
  \cup
  {SeedEntry(i, version, "passed", FALSE, <<Step("left_click", FALSE, "")>>) :
     version \in {Str("1"), Str("2abc"), Str("abc"), Undefined}}

RECURSIVE RepoDisksOfLen(_)
RepoDisksOfLen(n) ==
  IF n = 0 THEN {<<>>}
  ELSE {Append(d, e) : d \in RepoDisksOfLen(n - 1), e \in RepoEntries(n)}

InitRepository ==
  /\ testRun = NoRun
  /\ call = NoCall
  /\ thrown = NoError
  /\ returned = NoArray
  /\ added = <<>>
  /\ config = [caching |-> [enabled |-> TRUE]]
  /\ testCase = [directExecution |-> FALSE]
  /\ disk \in UNION {RepoDisksOfLen(n) : n \in 0..MaxLoaded}
  /\ clock = MaxLoaded + 1
  /\ RunnerIdle

\* repository.getLatestPassedRun() on a cold repository: getRuns loads and
\* memoizes the directory, then the run is picked
CallGetLatestPassedRun ==
  /\ pc = "idle"
  /\ LET runs == getRuns(testRuns, disk)
     IN /\ testRuns' = Memo(runs)
        /\ latestRun' = getLatestPassedRun(runs)
  /\ pc' = "selected"
  /\ UNCHANGED <<testRun, call, thrown, varsGetSteps, varsLocks, varsSuite, config, testCase, disk, skipCache,
                 clock, page, initialState, filteredSteps, stepIdx, executed,
                 observed, error, cacheError, aiResponse, events, fileResults>>

NextRepository == CallGetLatestPassedRun

SpecRepository == InitRepository /\ [][NextRepository]_vars

(***************************************************************************)
(* SpecRetention: applyRetentionPolicy of a cold repository over any cache *)
(* directory; the entry files are enumerated in an order that need not be  *)
(* the order of their timestamps.                                          *)
(***************************************************************************)
\* an entry file at position i of the directory
RetentionEntries(i) ==
  {SeedEntry(i, version, status, executedFromCache, <<Step("left_click", FALSE, "")>>) :
     version \in {Num(VERSION), Num(VERSION - 1)},
     status \in {"passed", "failed"},
     executedFromCache \in BOOLEAN}

RECURSIVE RetentionDisksOfLen(_)
RetentionDisksOfLen(n) ==
  IF n = 0 THEN {<<>>}
  ELSE {Append(d, e) : d \in RetentionDisksOfLen(n - 1), e \in RetentionEntries(n)}

\* the runs of the directory were created in any order: distinct timestamps
Stamped(d, t) == [i \in 1..Len(d) |-> [d[i] EXCEPT !.metadata.timestamp = t[i]]]
Orders(n) == {t \in [1..n -> 1..n] : \A i, j \in 1..n : t[i] = t[j] => i = j}

InitRetention ==
  /\ testRun = NoRun
  /\ call = NoCall
  /\ thrown = NoError
  /\ returned = NoArray
  /\ added = <<>>
  /\ config = [caching |-> [enabled |-> TRUE]]
  /\ testCase = [directExecution |-> FALSE]
  /\ \E n \in 0..MaxLoaded :
       \E d \in RetentionDisksOfLen(n), t \in Orders(n) : disk = Stamped(d, t)
  /\ clock = MaxLoaded + 1
  /\ RunnerIdle

\* repository.applyRetentionPolicy() on a cold repository: getRuns loads and
\* memoizes the directory, then the policy deletes entry files
CallApplyRetentionPolicy ==
  /\ pc = "idle"
  /\ LET runs == getRuns(testRuns, disk)
     IN /\ testRuns' = Memo(runs)
        /\ disk' = applyRetentionPolicy(disk, runs)
  /\ pc' = "retained"
  /\ UNCHANGED <<testRun, call, thrown, varsGetSteps, varsLocks, varsSuite, config, testCase,
                 skipCache, clock, page, initialState, latestRun, filteredSteps,
                 stepIdx, executed, observed, error, cacheError, aiResponse,
                 events, fileResults>>

NextRetention == CallApplyRetentionPolicy

SpecRetention == InitRetention /\ [][NextRetention]_vars

(***************************************************************************)
(* SpecLocks: engine processes saving runs into one cache directory, each  *)
(* through the repository of a test identifier.  SpecLocksFair adds that a *)
(* process inside saveRun keeps running.                                   *)
(***************************************************************************)
InitLocks ==
  /\ testRun = NoRun
  /\ call = NoCall
  /\ thrown = NoError
  /\ returned = NoArray
  /\ added = <<>>
  /\ config = [caching |-> [enabled |-> TRUE]]
  /\ testCase = [directExecution |-> FALSE]
  /\ disk = <<>>
  /\ clock = 1
  /\ RunnerIdle

\* the finished run process p saves (its runId names the entry file)
RunOf(p) ==
  [NewTestRun(p, p, FALSE) EXCEPT !.status = "passed", !.reason = "r1"]

UnchangedButLocks ==
  UNCHANGED <<testRun, call, thrown, returned, added, config, testCase, disk,
              testRuns, pc, skipCache, clock, page, initialState, latestRun,
              filteredSteps, stepIdx, executed, observed, error, cacheError,
              aiResponse, events, fileResults, varsSuite, created>>

\* saveRun(run) up to the lock: with the lock the call goes on, without it
\* the call returns
SaveRunAcquire(p) ==
  /\ saving[p].pc = "idle"
  /\ \E id \in Identifiers :
       LET r == acquireLock(lockHolder, id, p)
       IN /\ lockHolder' = r.locks
          /\ IF r.acquired
             THEN /\ saving' = [saving EXCEPT ![p] =
                                  [pc |-> "locked", identifier |-> id, result |-> "none"]]
                  /\ UNCHANGED cacheDir
             ELSE /\ saving' = [saving EXCEPT ![p] = NotSaving(id, "skipped")]
                  /\ cacheDir' = [cacheDir EXCEPT ![id] = saveRun(@, RunOf(p), FALSE)]
  /\ UnchangedButLocks

\* saveRun with the lock: the entry file is written, or the write fails
SaveRunWrite(p) ==
  /\ saving[p].pc = "locked"
  /\ LET id == saving[p].identifier
     IN \E written \in BOOLEAN :
          /\ cacheDir' = IF written
                          THEN [cacheDir EXCEPT ![id] = saveRun(@, RunOf(p), TRUE)]
                          ELSE cacheDir
          /\ saving' = [saving EXCEPT ![p] =
                          [pc |-> "finally", identifier |-> id,
                           result |-> IF written THEN "saved" ELSE "failed"]]
  /\ UNCHANGED lockHolder
  /\ UnchangedButLocks

\* the end of the saveRun call
SaveRunReturn(p) ==
  /\ saving[p].pc = "finally"
  /\ lockHolder' = saveRunFinally(lockHolder, saving[p].identifier,
                                   saving[p].result = "saved")
  /\ saving' = [saving EXCEPT ![p] = NotSaving("", saving[p].result)]
  /\ UNCHANGED cacheDir
  /\ UnchangedButLocks

NextLocks ==
  \E p \in Procs :
    \/ SaveRunAcquire(p)
    \/ SaveRunWrite(p)
    \/ SaveRunReturn(p)

SpecLocks == InitLocks /\ [][NextLocks]_vars

\* a process inside saveRun is scheduled again
SpecLocksFair ==
  /\ SpecLocks
  /\ \A p \in Procs : WF_vars(SaveRunWrite(p)) /\ WF_vars(SaveRunReturn(p))

(***************************************************************************)
(* SpecTestRun: a TestRun in isolation, any method at any time.            *)
(***************************************************************************)
\* arguments the calls are made with
Reasons == {"r1", "r2"}
UsageArgs == Usages \cup {NoUsage}
\* the steps addStep is called with
StepArgs == {Step("left_click", FALSE, ""), Step("mouse_move", TRUE, "<a/>")}

InitTestRun ==
  /\ testRun = create(1)
  /\ call = NoCall
  /\ thrown = NoError
  /\ returned = NoArray
  /\ added = <<>>
  /\ config = [caching |-> [enabled |-> TRUE]]
  /\ testCase = [directExecution |-> FALSE]
  /\ disk = <<>>
  /\ clock = 1
  /\ RunnerIdle

CallMarkRunning ==
  LET r == markRunning(testRun)
  IN /\ testRun' = r.run
     /\ thrown' = r.thrown
     /\ call' = [op |-> "markRunning", reason |-> NoReason, tokenUsage |-> NoUsage]
     /\ UNCHANGED varsGetSteps
     /\ UNCHANGED varsRunner

CallMarkPassed ==
  \E reason \in Reasons, u \in UsageArgs :
    LET r == markPassed(testRun, reason, u)
    IN /\ testRun' = r.run
       /\ thrown' = r.thrown
       /\ call' = [op |-> "markPassed", reason |-> reason, tokenUsage |-> u]
       /\ UNCHANGED varsGetSteps
       /\ UNCHANGED varsRunner

CallMarkPassedFromCache ==
  \E reason \in Reasons :
    LET r == markPassedFromCache(testRun, reason)
    IN /\ testRun' = r.run
       /\ thrown' = r.thrown
       /\ call' = [op |-> "markPassedFromCache", reason |-> reason, tokenUsage |-> NoUsage]
       /\ UNCHANGED varsGetSteps
       /\ UNCHANGED varsRunner

CallMarkFailed ==
  \E reason \in Reasons, u \in UsageArgs :
    LET r == markFailed(testRun, reason, u)
    IN /\ testRun' = r.run
       /\ thrown' = r.thrown
       /\ call' = [op |-> "markFailed", reason |-> reason, tokenUsage |-> u]
       /\ UNCHANGED varsGetSteps
       /\ UNCHANGED varsRunner

CallAddStep ==
  /\ Len(testRun.steps) < MaxSteps
  /\ \E step \in StepArgs :
       /\ testRun' = addStep(testRun, step)
       /\ added' = Append(added, step)
       /\ returned' = IF returned.own
                      THEN [returned EXCEPT !.items = testRun'.steps]
                      ELSE returned
       /\ thrown' = NoError
       /\ call' = [op |-> "addStep", reason |-> NoReason, tokenUsage |-> NoUsage]
  /\ UNCHANGED varsRunner

\* const steps = testRun.getSteps()
CallGetSteps ==
  /\ returned' = getStepsResult(testRun)
  /\ thrown' = NoError
  /\ call' = [op |-> "getSteps", reason |-> NoReason, tokenUsage |-> NoUsage]
  /\ UNCHANGED <<testRun, added>>
  /\ UNCHANGED varsRunner

\* steps.pop() on the array a getSteps call returned: the caller's array
\* loses its last element, and so does the run's when it is the same object
PopReturned ==
  /\ returned.held
  /\ returned.items # <<>>
  /\ returned' = [returned EXCEPT !.items = pop(@)]
  /\ testRun' = IF returned.own
                 THEN [testRun EXCEPT !.steps = pop(returned.items)]
                 ELSE testRun
  /\ thrown' = NoError
  /\ call' = [op |-> "pop", reason |-> NoReason, tokenUsage |-> NoUsage]
  /\ UNCHANGED added
  /\ UNCHANGED varsRunner

NextTestRun ==
  \/ CallMarkRunning
  \/ CallMarkPassed
  \/ CallMarkPassedFromCache
  \/ CallMarkFailed
  \/ CallAddStep
  \/ CallGetSteps
  \/ PopReturned

SpecTestRun == InitTestRun /\ [][NextTestRun]_vars

(***************************************************************************)
(* SpecSuite: TestRunner.execute over the files a pattern matches, each    *)
(* file through executeTestFile, with executeTest seen from its caller: it *)
(* returns with the TestRun passed or failed, or it throws.                *)
(***************************************************************************)
\* most files the pattern matches, most test cases a file declares
MaxFiles == 2
MaxTests == 2

\* bug variant: the run goes on without a matched file
noFilesFound_never(files) == FALSE

\* files.length === 0 (index.ts:204)
noFilesFound(files) == files = 0

\* reporter.error(scope, message)
reporterError(rep, scope) == [rep EXCEPT !.errors = Append(@, scope)]

\* reporter.onTestEnd(testRun)
onTestEnd(rep, tr) ==
  IF tr.status = "passed"
  THEN [rep EXCEPT !.passedTestsCount = @ + 1]
  ELSE [rep EXCEPT !.failedTestsCount = @ + 1]

\* bug variant: only the test runs that ended failed count
allTestsPassed_failedRunsOnly(rep, results) == rep.failedTestsCount = 0

\* reporter.allTestsPassed(): every test the files announced ended passed
\* and no file was reported failed
allTestsPassed(rep, results) ==
  /\ rep.passedTestsCount = rep.testsCount
  /\ \A i \in DOMAIN results : results[i] # "failed"

\* the import of the compiled file runs its top-level calls of
\* test.beforeAll, test.afterAll, test.beforeEach and test.afterEach, each
\* of which pushes its hook (packages/shortest/src/index.ts:241-256)
importHooks(reg, file, registers) ==
  IF registers
  THEN [reg EXCEPT !.beforeAllFns = Append(@, file),
                   !.afterAllFns = Append(@, file),
                   !.beforeEachFns = Append(@, file),
                   !.afterEachFns = Append(@, file)]
  ELSE reg

\* how BrowserManager.launch ends: chromium.launch throws, newContext
\* throws, the first navigation throws, or the context is returned
LaunchOutcomes == {"noBrowser", "noContext", "noPage", "ok"}

\* BrowserManager.launch (cli/bin.test.ts:138-178): the fields it has
\* assigned when it ends
launch(b, out) ==
  CASE out = "noBrowser" -> b
    [] out = "noContext" -> [b EXCEPT !.browser = TRUE]
    [] OTHER -> [browser |-> TRUE, context |-> TRUE]

\* bug variant: the file context is built for every file
createFileTestContext_perFile(current, context) == context

\* createFileTestContext (index.ts:634-666): the file context is built
\* from the first page of `context` only when the runner has none yet
createFileTestContext(current, context) ==
  IF current = 0 THEN context ELSE current

\* a loop over a hook list: without a hook nothing can throw
hookOutcomes(fns) == IF fns = <<>> THEN {"ok"} ELSE HookOutcomes

\* bug variant: the run is saved before the after-each hooks
stepAfter_saveFirst(at) ==
  CASE at = "beforeEach" -> "create"
    [] at = "create" -> "executeTest"
    [] at = "executeTest" -> "saveRun"
    [] at = "saveRun" -> "afterEach"
    [] at = "afterEach" -> "retention"

\* the body of the loop over testsToRun (index.ts:518-556): the step that
\* follows the step at `at` when that step returns
stepAfter(at) ==
  CASE at = "beforeEach" -> "create"
    [] at = "create" -> "executeTest"
    [] at = "executeTest" -> "afterEach"
    [] at = "afterEach" -> "saveRun"
    [] at = "saveRun" -> "retention"

\* the catch clause of executeTestFile handles the error (reports the file
\* as failed) or rethrows it (index.ts:575-583)
IsHandledByFile(e) == e.kind \in {"ShortestError", "CacheError"}

\* saveRun catches a failure of the write and logs it: the error its
\* caller sees
saveRunCatch(e) == NoException

\* bug variant: a failure of applyRetentionPolicy is rethrown
retentionCatch_rethrows(e) == e

\* the catch clause around applyRetentionPolicy logs the error
\* (index.ts:546-555): the error in flight after it
retentionCatch(e) == NoException

\* a step of executeTestFile as the trace keeps it
Event(op, test, out) ==
  [op |-> op, file |-> suite.fileIdx, test |-> test, out |-> out]

\* the variables execute and executeTestFile never touch
UnchangedBySuite ==
  UNCHANGED <<call, thrown, varsGetSteps, varsLocks, config, testCase,
              skipCache, page, initialState, latestRun, filteredSteps,
              stepIdx, executed, observed, cacheError, aiResponse, events>>

InitSuite ==
  /\ testRun = NoRun
  /\ call = NoCall
  /\ thrown = NoError
  /\ returned = NoArray
  /\ added = <<>>
  /\ config = [caching |-> [enabled |-> FALSE]]
  /\ testCase = [directExecution |-> FALSE]
  /\ disk = <<>>
  /\ clock = 1
  /\ RunnerIdle

\* execute up to the loop over the files (index.ts:195-215): the glob
\* matches `files` files
Execute ==
  /\ pc = "idle"
  /\ \E files \in 0..MaxFiles, lineNumber \in BOOLEAN :
       LET called == [suite EXCEPT !.files = files, !.lineNumber = lineNumber]
       IN IF noFilesFound(files)
          THEN /\ reporter' = reporterError(reporter, "Test Discovery")
               /\ suite' = [called EXCEPT !.result = "false"]
               /\ pc' = "returned"
          ELSE /\ reporter' = reporter
               /\ suite' = called
               /\ pc' = "loop"
  /\ UNCHANGED <<testRun, disk, testRuns, clock, error, fileResults, registry,
                 browser, trace>>
  /\ UnchangedBySuite

\* the loop over the files and the return of execute (index.ts:216-221)
ExecuteLoop ==
  /\ pc = "loop"
  /\ IF suite.fileIdx < suite.files
     THEN /\ suite' = [suite EXCEPT !.fileIdx = @ + 1]
          /\ pc' = "import"
     ELSE /\ suite' = [suite EXCEPT !.result =
                         IF allTestsPassed(reporter, fileResults)
                         THEN "true" ELSE "false"]
          /\ pc' = "returned"
  /\ UNCHANGED <<testRun, disk, testRuns, clock, error, fileResults, registry,
                 browser, reporter, trace>>
  /\ UnchangedBySuite

\* executeTestFile up to the browser launch (index.ts:467-497): the file
\* is compiled and imported, which registers its hooks and its `tests`
\* test cases, and the test cases are narrowed to those at the line asked
\* for, `kept` of them
ImportFile ==
  /\ pc = "import"
  /\ \E compiled \in HookOutcomes, registers \in BOOLEAN, tests \in 0..MaxTests :
       \E kept \in 0..tests :
         LET entered == [registry EXCEPT !.currentFilePath = suite.fileIdx]
             started == [suite EXCEPT !.testIdx = 0, !.testsToRun = 0,
                                      !.logged = NoLogged]
         IN IF compiled # "ok"
            THEN /\ registry' = entered
                 /\ suite' = started
                 /\ reporter' = reporter
                 /\ error' = ErrorOf(compiled)
                 /\ pc' = "catch"
            ELSE /\ registry' = importHooks(entered, suite.fileIdx, registers)
                 /\ IF suite.lineNumber /\ kept = 0
                    THEN /\ suite' = started
                         /\ reporter' = reporterError(reporter, "Test Discovery")
                         /\ error' = ShortestError
                         /\ pc' = "catch"
                    ELSE /\ suite' = [started EXCEPT !.testsToRun =
                                        IF suite.lineNumber THEN kept ELSE tests]
                         /\ reporter' = reporter
                         /\ error' = error
                         /\ pc' = "launch"
  /\ trace' = <<>>
  /\ UNCHANGED <<testRun, disk, testRuns, clock, fileResults, browser>>
  /\ UnchangedBySuite

\* the browser launch (index.ts:498-506); a failure becomes a
\* ShortestError; then the file context for the launched context
\* (index.ts:507)
SuiteLaunch ==
  /\ pc = "launch"
  /\ \E out \in LaunchOutcomes :
       /\ browser' = launch(browser, out)
       /\ IF out = "ok"
          THEN /\ suite' = [suite EXCEPT !.testFileContext =
                              createFileTestContext(@, suite.fileIdx)]
               /\ pc' = "beforeAll"
               /\ error' = error
          ELSE /\ suite' = suite
               /\ pc' = "catch"
               /\ error' = ShortestError
  /\ UNCHANGED <<testRun, disk, testRuns, clock, fileResults, registry,
                 reporter, trace>>
  /\ UnchangedBySuite

\* the hooks of the list `fns` run at position `at` for test case `test`;
\* `next` is the position after them
SuiteHooks(at, fns, test, next) ==
  /\ pc = at
  /\ \E out \in hookOutcomes(fns) :
       IF out = "ok"
       THEN /\ trace' = Append(trace, Event(at, test, "ok"))
            /\ pc' = next
            /\ error' = error
       ELSE /\ trace' = Append(trace, Event(at, test, "threw"))
            /\ pc' = "finally"
            /\ error' = ErrorOf(out)
  /\ UNCHANGED <<testRun, disk, testRuns, clock, fileResults, registry, browser>>
  /\ UnchangedBySuite

\* the before-all hooks, then onFileStart and the entry of the loop over
\* the test cases (index.ts:510-518)
SuiteBeforeAll ==
  /\ SuiteHooks("beforeAll", registry.beforeAllFns, 0,
                IF suite.testsToRun = 0 THEN "afterAll" ELSE "beforeEach")
  /\ IF error' = NoException
     THEN /\ reporter' = [reporter EXCEPT !.testsCount = @ + suite.testsToRun]
          /\ suite' = [suite EXCEPT !.testIdx = IF suite.testsToRun = 0 THEN 0 ELSE 1]
     ELSE UNCHANGED <<reporter, suite>>

\* index.ts:520-522
SuiteBeforeEach ==
  /\ SuiteHooks("beforeEach", registry.beforeEachFns, suite.testIdx,
                stepAfter("beforeEach"))
  /\ UNCHANGED <<reporter, suite>>

\* index.ts:538-540
SuiteAfterEach ==
  /\ SuiteHooks("afterEach", registry.afterEachFns, suite.testIdx,
                stepAfter("afterEach"))
  /\ UNCHANGED <<reporter, suite>>

\* index.ts:558-560
SuiteAfterAll ==
  /\ SuiteHooks("afterAll", registry.afterAllFns, 0, "finally")
  /\ UNCHANGED <<reporter, suite>>

\* onTestStart, TestRun.create and markRunning (index.ts:524-527); the test
\* case has its own repository, whose cache directory is empty before the
\* first run
SuiteCreate ==
  /\ pc = "create"
  /\ testRun' = markRunning(create(clock)).run
  /\ clock' = clock + 1
  /\ disk' = <<>>
  /\ testRuns' = NoMemo
  /\ trace' = trace \o <<Event("create", suite.testIdx, "ok"),
                         Event("markRunning", suite.testIdx, "ok")>>
  /\ pc' = stepAfter("create")
  /\ suite' = [suite EXCEPT !.logged = NoLogged]
  /\ UNCHANGED <<error, fileResults, registry, browser, reporter>>
  /\ UnchangedBySuite

\* how executeTest ends for its caller: the TestRun passed or failed, or an
\* error that no catch clause of executeTest handles
ExecuteTestOutcomes == {"passed", "failed", "ShortestError", "Error"}

\* the call of executeTest, its catch clause that rethrows, and onTestEnd
\* (index.ts:526-536)
SuiteExecuteTest ==
  /\ pc = "executeTest"
  /\ \E out \in ExecuteTestOutcomes :
       IF out \in {"passed", "failed"}
       THEN /\ testRun' = IF out = "passed"
                          THEN markPassed(testRun, AIReason(out), NoUsage).run
                          ELSE markFailed(testRun, AIReason(out), NoUsage).run
            /\ reporter' = onTestEnd(reporter, testRun')
            /\ suite' = [suite EXCEPT !.runFailed = @ \/ out = "failed"]
            /\ trace' = Append(trace, Event("executeTest", suite.testIdx, "ok"))
            /\ error' = error
            /\ pc' = stepAfter("executeTest")
       ELSE /\ trace' = Append(trace, Event("executeTest", suite.testIdx, "threw"))
            /\ error' = ErrorOf(out)
            /\ pc' = "finally"
            /\ UNCHANGED <<testRun, reporter, suite>>
  /\ UNCHANGED <<disk, testRuns, clock, fileResults, registry, browser>>
  /\ UnchangedBySuite

\* saveRun of the TestRun (index.ts:542-544): the entry is written, the
\* save is skipped for want of the lock, or the write fails
SuiteSaveRun ==
  /\ pc = "saveRun"
  /\ \E out \in {"saved", "skipped", "failed"} :
       LET e == IF out = "failed" THEN saveRunCatch(PlainError) ELSE NoException
       IN /\ disk' = IF out = "failed" THEN disk
                     ELSE saveRun(disk, testRun, out = "saved")
          /\ suite' = IF out = "failed"
                      THEN [suite EXCEPT !.logged =
                              [op |-> "saveRun", test |-> suite.testIdx]]
                      ELSE suite
          /\ trace' = Append(trace, Event("saveRun", suite.testIdx,
                                          IF e = NoException THEN "ok" ELSE "threw"))
          /\ error' = e
          /\ pc' = IF e = NoException THEN stepAfter("saveRun") ELSE "finally"
  /\ UNCHANGED <<testRun, testRuns, clock, fileResults, registry, browser, reporter>>
  /\ UnchangedBySuite

\* applyRetentionPolicy in its try block (index.ts:546-556), then the next
\* test case or the end of the loop
SuiteRetention ==
  /\ pc = "retention"
  /\ \E applied \in BOOLEAN :
       LET runs == getRuns(testRuns, disk)
           e == IF applied THEN NoException ELSE retentionCatch(PlainError)
           more == suite.testIdx < suite.testsToRun
       IN /\ IF applied
             THEN testRuns' = Memo(runs) /\ disk' = applyRetentionPolicy(disk, runs)
             ELSE UNCHANGED <<testRuns, disk>>
          /\ trace' = Append(trace, Event("retention", suite.testIdx,
                                          IF e = NoException THEN "ok" ELSE "threw"))
          /\ error' = e
          /\ pc' = IF e # NoException THEN "finally"
                   ELSE IF more THEN "beforeEach" ELSE "afterAll"
          /\ suite' = [suite EXCEPT
                         !.logged = IF applied THEN @
                                    ELSE [op |-> "retention", test |-> suite.testIdx],
                         !.testIdx = IF e = NoException /\ more THEN @ + 1 ELSE @]
  /\ UNCHANGED <<testRun, clock, fileResults, registry, browser, reporter>>
  /\ UnchangedBySuite

\* the finally block of the hooks-and-tests part (index.ts:561-574): the
\* browser is closed (BrowserManager.close, cli/bin.test.ts:223-232), the
\* hook lists are emptied and the file is reported as passed
SuiteFinally ==
  /\ pc = "finally"
  /\ browser' = ClosedBrowser
  /\ registry' = [registry EXCEPT !.beforeAllFns = <<>>, !.afterAllFns = <<>>,
                                  !.beforeEachFns = <<>>, !.afterEachFns = <<>>]
  /\ fileResults' = Append(fileResults, "passed")
  /\ pc' = IF error = NoException THEN "fileEnd" ELSE "catch"
  /\ UNCHANGED <<testRun, disk, testRuns, clock, error, suite, reporter, trace>>
  /\ UnchangedBySuite

\* the catch clause of executeTestFile (index.ts:575-583): a ShortestError
\* is reported as the failure of the file, any other error is rethrown
SuiteCatch ==
  /\ pc = "catch"
  /\ IF IsHandledByFile(error)
     THEN /\ fileResults' = Append(fileResults, "failed")
          /\ error' = NoException
     ELSE UNCHANGED <<fileResults, error>>
  /\ suite' = [suite EXCEPT !.fileFailed = TRUE]
  /\ pc' = "fileEnd"
  /\ UNCHANGED <<testRun, disk, testRuns, clock, registry, browser, reporter, trace>>
  /\ UnchangedBySuite

\* the finally block of executeTestFile (index.ts:584-587); an error still
\* in flight leaves executeTestFile and, uncaught by execute, execute. The
\* locals of executeTestFile are gone: the last TestRun and the repository
\* of its test case
SuiteFileEnd ==
  /\ pc = "fileEnd"
  /\ registry' = [registry EXCEPT !.currentFilePath = 0]
  /\ IF error = NoException
     THEN pc' = "loop" /\ suite' = suite
     ELSE pc' = "crashed" /\ suite' = [suite EXCEPT !.result = "thrown"]
  /\ testRun' = NoRun
  /\ disk' = <<>>
  /\ testRuns' = NoMemo
  /\ UNCHANGED <<clock, error, fileResults, browser, reporter, trace>>
  /\ UnchangedBySuite

NextSuite ==
  \/ Execute
  \/ ExecuteLoop
  \/ ImportFile
  \/ SuiteLaunch
  \/ SuiteBeforeAll
  \/ SuiteBeforeEach
  \/ SuiteCreate
  \/ SuiteExecuteTest
  \/ SuiteAfterEach
  \/ SuiteSaveRun
  \/ SuiteRetention
  \/ SuiteAfterAll
  \/ SuiteFinally
  \/ SuiteCatch
  \/ SuiteFileEnd

SpecSuite == InitSuite /\ [][NextSuite]_vars

(***************************************************************************)
(* SpecCreate: TestRun.create called for test cases while time passes or   *)
(* does not pass between the calls.                                        *)
(***************************************************************************)
\* most calls of TestRun.create, and most milliseconds that pass
MaxCreated == 3

\* the runId TestRun.create derives (test-run.ts:36-39): the ISO string of
\* the creation time, a millisecond `now` of one second, its colons and
\* periods replaced by "-", then "_" and the identifier of the test case
runIdOf(now, identifier) ==
  "1970-01-01T00-00-00-00" \o ToString(now) \o "Z" \o "_" \o identifier

InitCreate ==
  /\ testRun = NoRun
  /\ call = NoCall
  /\ thrown = NoError
  /\ returned = NoArray
  /\ added = <<>>
  /\ config = [caching |-> [enabled |-> TRUE]]
  /\ testCase = [directExecution |-> FALSE]
  /\ disk = <<>>
  /\ clock = 1
  /\ RunnerIdle

UnchangedByCreate ==
  UNCHANGED <<call, thrown, returned, added, lockHolder, saving, cacheDir,
              config, testCase, disk, testRuns, pc, skipCache, page,
              initialState, latestRun, filteredSteps, stepIdx, executed,
              observed, error, cacheError, aiResponse, events, fileResults,
              varsSuite>>

\* TestRun.create(testCase) for a test case with the identifier `id`, at
\* the millisecond `clock`
CallCreate ==
  /\ Len(created) < MaxCreated
  /\ \E id \in Identifiers :
       /\ testRun' = [create(clock) EXCEPT !.runId = runIdOf(clock, id)]
       /\ created' = Append(created, [identifier |-> id, run |-> testRun'])
  /\ UNCHANGED clock
  /\ UnchangedByCreate

\* a millisecond passes
Tick ==
  /\ clock < MaxCreated
  /\ clock' = clock + 1
  /\ UNCHANGED <<testRun, created>>
  /\ UnchangedByCreate

NextCreate ==
  \/ CallCreate
  \/ Tick

SpecCreate == InitCreate /\ [][NextCreate]_vars

(***************************************************************************)
(* Properties of cached replay (checked under Spec, C5 under               *)
(* SpecRepository).                                                        *)
(***************************************************************************)
IsPointerMove(step) == step.action = "mouse_move" /\ step.coordinate
Last(seq) == seq[Len(seq)]

C2_MismatchAbortsReplay ==
  \A k \in 1..Len(observed) :
    (observed[k].componentStr # filteredSteps[observed[k].idx].componentStr) =>
      /\ k = Len(observed)
      /\ pc = "executeTestCatch"
      /\ error = CacheError("invalid")
      /\ stepIdx = observed[k].idx
      /\ \A e \in 1..Len(executed) : executed[e].idx < observed[k].idx
      /\ testRun.status = "running"
      /\ ~testRun.executedFromCache

\* the second step of the cached log is a pointer move whose fingerprint
\* changed; the first step had been executed
C2_Witness ==
  /\ pc = "executeTestCatch"
  /\ stepIdx = 2
  /\ Len(executed) = 1
  /\ observed # <<>>
  /\ Last(observed).idx = 2
  /\ Last(observed).componentStr # filteredSteps[2].componentStr

\* C3, in every state: runCachedTest is entered at most once per TestRun and
\* the Action Decider runs after it only behind the navigation back; the
\* live retry starts on the URL of the initial observation; a CacheError
\* never leaves executeTest.
C3_State ==
  /\ events \in {<<>>, <<"runCachedTest">>, <<"runCachedTest", "goto">>,
                  <<"runCachedTest", "goto", "runAction">>, <<"runAction">>}
  /\ (config.caching.enabled => events # <<"runAction">>)
  /\ (skipCache => Len(events) >= 2)
  /\ (pc = "executeTest" /\ skipCache => page = initialState)
  /\ (pc \in {"finally", "catch", "done", "crashed"} => error.kind # "CacheError")

\* C3, in every step: a CacheError caught by executeTest is followed by the
\* navigation to the captured URL and the re-entry of executeTest, for the
\* same TestRun, with skipCache = TRUE.
C3_Step ==
  (pc = "executeTestCatch" /\ error.kind = "CacheError") =>
    /\ pc' = "executeTest"
    /\ skipCache'
    /\ page' = initialState
    /\ events' = Append(events, "goto")
    /\ testRun' = testRun

\* C3: when runCachedTest fails with a CacheError, executeTest navigates the
\* page back to the URL of the initial observation and only then runs the
\* same TestRun through the live path with the cache skipped; replay is
\* attempted at most once per TestRun and the CacheError never leaves
\* executeTest.
C3_FallbackOnceAfterNavigation == []C3_State /\ [][C3_Step]_vars

\* a replay that clicked and then failed was followed by the navigation back
\* and a live run that passed
C3_Witness ==
  /\ pc = "done"
  /\ events = <<"runCachedTest", "goto", "runAction">>
  /\ cacheError = "invalid"
  /\ testRun.status = "passed"
  /\ ~testRun.executedFromCache

\* C4: a run whose executedFromCache is true is never persisted: the cache
\* directory never holds an entry of the current TestRun flagged as
\* cache-executed.
C4_CacheExecutedRunNeverPersisted ==
  \A i \in 1..Len(disk) :
    (disk[i].metadata.runId = testRun.runId) => ~disk[i].metadata.executedFromCache

\* C5: getLatestPassedRun returns the last run, in enumeration order, among
\* the loaded runs that are passed, of the current schema version and not
\* cache-executed, and null when there is none.
C5_LatestPassedRunIsLastEligible ==
  (pc = "selected") =>
    LET runs == testRuns.runs
        E == {i \in 1..Len(runs) : /\ runs[i].status = "passed"
                                    /\ runs[i].version = VERSION
                                    /\ runs[i].executedFromCache = FALSE}
    IN /\ Len(runs) = Len(disk)
       /\ IF E = {}
          THEN latestRun = NoRun
          ELSE \E i \in E : (\A j \in E : j <= i) /\ latestRun = runs[i]

\* three loaded runs: two eligible ones followed by an ineligible one; the
\* second is returned
C5_Witness ==
  /\ pc = "selected"
  /\ Len(testRuns.runs) = 3
  /\ latestRun.runId = 2
  /\ testRuns.runs[1].status = "passed"
  /\ testRuns.runs[1].version = VERSION
  /\ ~testRuns.runs[1].executedFromCache

\* C6: runCachedTest fails with CacheError not-found when no eligible run
\* is loaded and with CacheError invalid when the eligible run has no
\* step left without its screenshots; in both cases the Action Executor
\* executed no recorded step and the TestRun is not marked passed; the
\* replay loop is entered only with a non-empty filtered log.
C6_NoRunOrNoStepsFailsReplay ==
  LET runs == testRuns.runs
      hasEligible == \E i \in 1..Len(runs) : /\ runs[i].status = "passed"
                                              /\ runs[i].version = VERSION
                                              /\ ~runs[i].executedFromCache
      allScreenshots == \A i \in 1..Len(latestRun.steps) :
                          latestRun.steps[i].action = "screenshot"
      notReplayed == /\ executed = <<>>
                     /\ observed = <<>>
                     /\ testRun.status = "running"
                     /\ ~testRun.executedFromCache
  IN /\ (pc = "executeTestCatch" /\ ~hasEligible) =>
          (error = CacheError("not-found") /\ notReplayed)
     /\ (pc = "executeTestCatch" /\ hasEligible /\ allScreenshots) =>
          (error = CacheError("invalid") /\ notReplayed)
     /\ (pc \in {"replay", "cachedAfterFn"}) =>
          (hasEligible /\ ~allScreenshots /\ filteredSteps # <<>>)

\* the eligible run recorded screenshots only
C6_Witness ==
  /\ pc = "executeTestCatch"
  /\ error = CacheError("invalid")
  /\ latestRun # NoRun
  /\ Len(latestRun.steps) = 2
  /\ filteredSteps = <<>>

(***************************************************************************)
(* Properties of the TestRun state machine (checked under SpecTestRun).    *)
(***************************************************************************)
Terminal == {"passed", "failed"}

\* C7: markRunning succeeds only on a pending run, which becomes running;
\* on a running, passed or failed run it throws "Can only start from
\* pending state" and leaves status, reason, steps, tokenUsage and
\* executedFromCache as they were.
C7_MarkRunningOnlyFromPending ==
  [][call'.op = "markRunning" =>
       IF testRun.status = "pending"
       THEN /\ thrown' = NoError
            /\ testRun'.status = "running"
       ELSE /\ thrown' = ErrStart
            /\ testRun'.status = testRun.status
            /\ testRun'.reason = testRun.reason
            /\ testRun'.steps = testRun.steps
            /\ testRun'.tokenUsage = testRun.tokenUsage
            /\ testRun'.executedFromCache = testRun.executedFromCache]_vars

\* a markRunning call on a failed run that has steps was rejected
C7_Witness ==
  /\ call.op = "markRunning"
  /\ thrown = ErrStart
  /\ testRun.status = "failed"
  /\ Len(testRun.steps) > 0

\* C8: markPassed succeeds only on a running run, which becomes passed with
\* the given reason; on a pending, passed or failed run it throws "Can only
\* pass from running state" and leaves status, reason and tokenUsage as they
\* were.
C8_MarkPassedOnlyFromRunning ==
  [][call'.op = "markPassed" =>
       IF testRun.status = "running"
       THEN /\ thrown' = NoError
            /\ testRun'.status = "passed"
            /\ testRun'.reason = call'.reason
       ELSE /\ thrown' = ErrPass
            /\ testRun'.status = testRun.status
            /\ testRun'.reason = testRun.reason
            /\ testRun'.tokenUsage = testRun.tokenUsage]_vars

\* a markPassed call with a token usage on a pending run was rejected
C8_Witness ==
  /\ call.op = "markPassed"
  /\ call.tokenUsage # NoUsage
  /\ thrown = ErrPass
  /\ testRun.status = "pending"
  /\ testRun.tokenUsage = ZeroUsage

\* C9: markFailed never throws, whatever the state it is called in, and
\* leaves the run failed with the reason of that call.
C9_MarkFailedFromAnyState ==
  [][call'.op = "markFailed" =>
       /\ thrown' = NoError
       /\ testRun'.status = "failed"
       /\ testRun'.reason = call'.reason]_vars

\* markFailed was called on a run that had passed from cache
C9_Witness ==
  /\ call.op = "markFailed"
  /\ thrown = NoError
  /\ testRun.status = "failed"
  /\ testRun.executedFromCache

\* C10 as stated: once the status is passed or failed no call changes it.
C10_TerminalNeverChanges ==
  [][testRun.status \in Terminal => testRun'.status = testRun.status]_vars

\* C10 amended: failed is terminal, and a passed run can only become failed,
\* by markFailed; markRunning, markPassed and markPassedFromCache never
\* change a passed or failed status, and the status never returns to
\* pending or running.
C10_TerminalOnlyFailedByMarkFailed ==
  [][testRun.status \in Terminal =>
       /\ testRun'.status \in Terminal
       /\ (testRun.status = "failed" => testRun'.status = "failed")
       /\ (testRun'.status # testRun.status => call'.op = "markFailed")]_vars

\* markPassedFromCache was called on a failed run and left it failed
C10_Witness ==
  /\ call.op = "markPassedFromCache"
  /\ thrown = ErrPass
  /\ testRun.status = "failed"
  /\ ~testRun.executedFromCache

\* C11: whatever methods were called on a TestRun since TestRun.create,
\* failed calls included, the reason is present exactly when the status is
\* passed or failed.
C11_ReasonIffTerminal ==
  (testRun.reason # NoReason) <=> (testRun.status \in Terminal)

\* a run failed straight from pending carries its reason, also after a
\* later markRunning was refused
C11_Witness ==
  /\ call.op = "markRunning"
  /\ thrown = ErrStart
  /\ testRun.status = "failed"
  /\ testRun.reason = "r2"
  /\ testRun.tokenUsage = ZeroUsage

\* C12: markPassedFromCache on a running TestRun makes it passed with the
\* given reason and executedFromCache = TRUE; in any other state it throws
\* "Can only pass from running state" and leaves the status and
\* executedFromCache as they were.
C12_MarkPassedFromCacheOnlyFromRunning ==
  [][call'.op = "markPassedFromCache" =>
       IF testRun.status = "running"
       THEN /\ thrown' = NoError
            /\ testRun'.status = "passed"
            /\ testRun'.reason = call'.reason
            /\ testRun'.executedFromCache
       ELSE /\ thrown' = ErrPass
            /\ testRun'.status = testRun.status
            /\ testRun'.executedFromCache = testRun.executedFromCache]_vars

\* markPassedFromCache succeeded on a running run
C12_Witness ==
  /\ call.op = "markPassedFromCache"
  /\ thrown = NoError
  /\ testRun.status = "passed"
  /\ testRun.reason = call.reason
  /\ testRun.executedFromCache

\* C13: after any number of addStep calls getSteps returns exactly the
\* steps added, in insertion order, and changing an array a getSteps call
\* returned never changes what a later getSteps call returns.
C13_GetStepsReturnsCopyInOrder ==
  /\ getSteps(testRun) = added
  /\ (call.op = "getSteps" => returned.items = added /\ ~returned.own)

\* two steps were added and returned by getSteps; the returned array lost
\* its last element and the run still has both steps
C13_Witness ==
  /\ call.op = "pop"
  /\ Len(added) = 2
  /\ added[1] # added[2]
  /\ returned.items = <<added[1]>>
  /\ getSteps(testRun) = added

(***************************************************************************)
(* Properties of the lock of saveRun (SpecLocks, C16 under SpecLocksFair). *)
(***************************************************************************)
\* process p is inside a saveRun call that acquired the lock of id
InsideSaveRun(p, id) ==
  saving[p].pc \in {"locked", "finally"} /\ saving[p].identifier = id

\* C14: a saveRun call that cannot acquire the lock of its identifier
\* returns at once without an error and leaves every entry file, and the
\* lock, as they were.
C14_NoLockNoWrite ==
  [][\A p \in Procs :
       (saving'[p] # saving[p] /\ saving'[p].result = "skipped") =>
         /\ saving[p].pc = "idle"
         /\ saving'[p].pc = "idle"
         /\ cacheDir' = cacheDir
         /\ lockHolder' = lockHolder
         /\ lockHolder[lockFileName(saving'[p].identifier)] # NoHolder]_vars

\* a save was skipped while another process was writing for the same
\* identifier, whose directory already held an entry
C14_Witness ==
  \E p, q \in Procs :
    /\ p # q
    /\ saving[p] = NotSaving("login", "skipped")
    /\ InsideSaveRun(q, "login")
    /\ cacheDir["login"] # <<>>
    /\ \A i \in 1..Len(cacheDir["login"]) : cacheDir["login"][i].metadata.runId # p

\* C15, in every state: no two processes are inside saveRun with the lock
\* of the same identifier, and the lock file names the one that is.
C15_State ==
  \A id \in Identifiers :
    /\ Cardinality({p \in Procs : InsideSaveRun(p, id)}) <= 1
    /\ \A p \in Procs : InsideSaveRun(p, id) => lockHolder[lockFileName(id)] = p

\* C15, in every step: the entry files of an identifier change only by a
\* process that holds the lock of that identifier, and a save is skipped
\* only when another process holds the lock of the same identifier.
C15_Step ==
  /\ \A id \in Identifiers :
       (cacheDir'[id] # cacheDir[id]) =>
         \E p \in Procs : /\ saving[p].pc = "locked"
                           /\ saving[p].identifier = id
                           /\ lockHolder[lockFileName(id)] = p
                           /\ saving'[p].pc = "finally"
  /\ \A p \in Procs :
       (saving'[p] # saving[p] /\ saving'[p].result = "skipped") =>
         \E q \in Procs \ {p} : InsideSaveRun(q, saving'[p].identifier)

\* C15: with processes sharing the cache directory and interleaving in any
\* way, at most one process at a time holds the lock of an identifier,
\* saveRun writes an entry file only while its process holds that lock, and
\* the locks of different identifiers do not exclude each other.
C15_LockIsExclusivePerIdentifier == []C15_State /\ [][C15_Step]_vars

\* two processes hold the locks of two identifiers at the same time, one of
\* them about to write, the other having written
C15_Witness ==
  \E p, q \in Procs :
    /\ saving[p].pc = "locked" /\ saving[p].identifier = "login"
    /\ saving[q].pc = "finally" /\ saving[q].identifier = "checkout"
    /\ saving[q].result = "saved"
    /\ cacheDir["checkout"] # <<>>

\* C16, in every state: a process outside saveRun holds no lock.
C16_State ==
  \A f \in LockFiles : \A p \in Procs :
    (lockHolder[f] = p) => (saving[p].pc # "idle" /\ lockFileName(saving[p].identifier) = f)

\* C16, in every step: a lock is acquired only when it is free, by a process
\* that holds none.
C16_Step ==
  \A f \in LockFiles : \A p \in Procs :
    (lockHolder'[f] = p /\ lockHolder[f] # p) =>
      /\ lockHolder[f] = NoHolder
      /\ saving[p].pc = "idle"
      /\ \A g \in LockFiles : lockHolder[g] # p

\* C16: every lock a saveRun call acquired is released before the call
\* returns, also when writing the entry failed; no lock is held between
\* saveRun calls, no call acquires a lock its process holds, and a held lock
\* becomes free again, so that a later saveRun can acquire it.
C16_LockReleasedBeforeReturn ==
  /\ []C16_State
  /\ [][C16_Step]_vars
  /\ \A f \in LockFiles : (lockHolder[f] # NoHolder) ~> (lockHolder[f] = NoHolder)

\* a saveRun call whose write failed has returned and the lock is free
C16_Witness ==
  \E p \in Procs :
    /\ saving[p] = NotSaving("", "failed")
    /\ \A f \in LockFiles : lockHolder[f] = NoHolder
    /\ \A id \in Identifiers : cacheDir[id] = <<>>

(***************************************************************************)
(* Properties of applyRetentionPolicy (SpecRetention).  After the call the *)
(* memoized runs are the runs it had loaded and the directory holds what   *)
(* it left.                                                                *)
(***************************************************************************)
Loaded == {testRuns.runs[i] : i \in 1..Len(testRuns.runs)}
Stored == {fromCache(disk[i]) : i \in 1..Len(disk)}
\* the loaded runs of the current version that did not pass from cache
Regular == {r \in Loaded : r.version = VERSION /\ ~r.executedFromCache}
RegularPassed == {r \in Regular : r.status = "passed"}
\* index of a loaded run in enumeration order
IndexOf(r) == CHOOSE i \in 1..Len(testRuns.runs) : testRuns.runs[i] = r

\* C17: applyRetentionPolicy deletes every loaded run of another version than
\* the current one, whatever its status, and afterwards no run of another
\* version is stored for the identifier.
C17_OutdatedRunsDeleted ==
  (pc = "retained") =>
    /\ \A r \in Loaded : (r.version # VERSION) => (r \notin Stored)
    /\ \A r \in Stored : r.version = VERSION
    /\ Stored \subseteq Loaded

\* a passed and a failed run of the previous version were deleted, a run of
\* the current version is left
C17_Witness ==
  /\ pc = "retained"
  /\ \E r \in Loaded : r.version # VERSION /\ r.status = "passed" /\ ~r.executedFromCache
  /\ \E r \in Loaded : r.version # VERSION /\ r.status = "failed"
  /\ Len(disk) = 1

\* C18: when a passed run of the current version that did not pass from
\* cache is loaded, applyRetentionPolicy keeps exactly one such run, the one
\* getLatestPassedRun selects, and deletes every other run of the current
\* version that did not pass from cache, passed or failed.
C18_KeepsOnlyLatestPassed ==
  (pc = "retained" /\ RegularPassed # {}) =>
    \E k \in RegularPassed :
      /\ \A r \in RegularPassed : IndexOf(r) <= IndexOf(k)
      /\ {r \in Stored : ~r.executedFromCache} = {k}

\* two passed runs and a failed one: the passed run enumerated last is
\* kept although it is not the newest, the others are deleted
C18_Witness ==
  /\ pc = "retained"
  /\ Cardinality(RegularPassed) = 2
  /\ Cardinality(Regular) = 3
  /\ Cardinality(Stored) = 1
  /\ \E k \in Stored : \E r \in RegularPassed : r.timestamp > k.timestamp

\* C19: when no eligible passed run is loaded, applyRetentionPolicy keeps,
\* of the runs of the current version that did not pass from cache, only the
\* one with the greatest timestamp, wherever it was enumerated.
C19_KeepsNewestWithoutPassed ==
  (pc = "retained" /\ RegularPassed = {} /\ Regular # {}) =>
    \E k \in Regular :
      /\ \A r \in Regular : r.timestamp <= k.timestamp
      /\ {r \in Stored : ~r.executedFromCache} = {k}

\* three failed runs, the newest enumerated first: it is the one kept
C19_Witness ==
  /\ pc = "retained"
  /\ Cardinality(Regular) = 3
  /\ RegularPassed = {}
  /\ Cardinality(Stored) = 1
  /\ fromCache(disk[1]) = testRuns.runs[1]

\* C20: applyRetentionPolicy never deletes a run of the current version that
\* passed from cache, and such runs do not compete for the place of the
\* most recent run: the newest regular run is kept also when a
\* cache-executed run is newer.
C20_CacheExecutedRunsUntouched ==
  (pc = "retained") =>
    /\ \A r \in Loaded : (r.version = VERSION /\ r.executedFromCache) => r \in Stored
    /\ (RegularPassed = {} /\ Regular # {}) =>
         \E k \in Regular \cap Stored : \A r \in Regular : r.timestamp <= k.timestamp

\* a cache-executed run newer than two failed regular runs: it stays, and
\* so does the newer of the two regular runs
C20_Witness ==
  /\ pc = "retained"
  /\ Cardinality(Regular) = 2
  /\ RegularPassed = {}
  /\ \E c \in Loaded : /\ c.version = VERSION
                         /\ c.executedFromCache
                         /\ \A r \in Regular : r.timestamp < c.timestamp
                         /\ c \in Stored
  /\ Cardinality(Stored) = 2

(***************************************************************************)
(* Properties of the CacheEntry conversions (C21 under Spec, C22 under     *)
(* SpecRepository).                                                        *)
(***************************************************************************)
\* C21: the entry saveRun wrote for the finished TestRun, read back with
\* TestRun.fromCache, gives a TestRun with the same status, reason,
\* tokenUsage, runId, executedFromCache flag and steps in the same order.
C21_SaveThenLoadRoundTrip ==
  \A i \in 1..Len(disk) :
    (disk[i].metadata.runId = testRun.runId) =>
      LET loaded == fromCache(disk[i])
      IN /\ testRun.status \in Terminal
         /\ loaded.status = testRun.status
         /\ loaded.reason = testRun.reason
         /\ loaded.tokenUsage = testRun.tokenUsage
         /\ loaded.runId = testRun.runId
         /\ loaded.executedFromCache = testRun.executedFromCache
         /\ loaded.steps = testRun.steps

\* a run that passed live with two recorded steps and a token usage was
\* saved
C21_Witness ==
  /\ pc = "retention"
  /\ testRun.status = "passed"
  /\ Len(testRun.steps) = 2
  /\ testRun.tokenUsage # ZeroUsage
  /\ \E i \in 1..Len(disk) : disk[i].metadata.runId = testRun.runId

\* the strings that write a number and nothing else
NumericStrings == {"0", "1", "2", "3"}

SuiteEnded == pc \in {"returned", "crashed"}

\* executeTestFile has ended for the file suite.fileIdx
FileEnded == pc \in {"loop", "returned", "crashed"} /\ suite.fileIdx >= 1

\* the steps of one test case, in the order of the claim
TestSteps ==
  <<"beforeEach", "create", "markRunning", "executeTest", "afterEach",
    "saveRun", "retention">>

\* the i-th step of a file with n test cases: the before-all hooks, the
\* steps of each test case in declaration order, the after-all hooks
ExpectedStep(i, n) ==
  IF i = 1 THEN [op |-> "beforeAll", test |-> 0]
  ELSE IF i = Len(TestSteps) * n + 2 THEN [op |-> "afterAll", test |-> 0]
  ELSE [op |-> TestSteps[((i - 2) % Len(TestSteps)) + 1],
        test |-> ((i - 2) \div Len(TestSteps)) + 1]

\* test case k of the file was executed
Executed(k) ==
  \E j \in DOMAIN trace : trace[j].op = "executeTest" /\ trace[j].test = k

\* C23: when the pattern matches no file, execute returns false without
\* throwing, the reporter holds one "Test Discovery" error, and no file was
\* executed: no launch, no hook, no TestRun, no file result.
C23_NoFilesReturnsFalse ==
  (pc # "idle" /\ suite.files = 0) =>
    /\ pc = "returned"
    /\ suite.result = "false"
    /\ error = NoException
    /\ reporter.errors = <<"Test Discovery">>
    /\ suite.fileIdx = 0
    /\ browser = ClosedBrowser
    /\ registry = NewRegistry
    /\ trace = <<>>
    /\ testRun = NoRun
    /\ clock = 1
    /\ fileResults = <<>>

C23_Witness ==
  /\ pc = "returned"
  /\ suite.files = 0
  /\ suite.result = "false"
  /\ reporter.errors = <<"Test Discovery">>
  /\ trace = <<>>

C25_StepsOfAFileInOrder ==
  pc # "import" =>
    /\ \A i \in DOMAIN trace :
         /\ trace[i].file = suite.fileIdx
         /\ trace[i].op = ExpectedStep(i, suite.testsToRun).op
         /\ trace[i].test = ExpectedStep(i, suite.testsToRun).test
         /\ i < Len(trace) => trace[i].out = "ok"
    /\ (pc = "fileEnd" /\ error = NoException /\ ~suite.fileFailed) =>
         Len(trace) = Len(TestSteps) * suite.testsToRun + 2

C25_Witness ==
  /\ pc = "fileEnd"
  /\ error = NoException
  /\ suite.testsToRun = 2
  /\ Len(trace) = 2 * Len(TestSteps) + 2
  /\ trace[Len(TestSteps) + 1].op = "retention"
  /\ trace[Len(TestSteps) + 2].op = "beforeEach"
  /\ trace[Len(TestSteps) + 2].test = 2

\* C26 as stated: whenever executeTestFile has ended, the browser and its
\* context are closed, the four hook lists are empty and the current file
\* path is reset.
C26_FileStateResetAfterEveryFile ==
  FileEnded => (browser = ClosedBrowser /\ registry = NewRegistry)

\* C27 as stated: an error executeTest raises aborts neither the remaining
\* test cases of the file nor the remaining files.
C27_RaisingTestDoesNotAbortSiblings ==
  \A i \in DOMAIN trace :
    (trace[i].op = "executeTest" /\ trace[i].out = "threw") =>
      /\ pc # "crashed"
      /\ FileEnded => \A k \in 1..suite.testsToRun : Executed(k)

\* C28 as stated: a file-level hook that throws is recorded on the current
\* TestRun as a failed result, and neither the remaining test cases nor the
\* remaining files are aborted.
C28_ThrowingHookDoesNotAbortSuite ==
  \A i \in DOMAIN trace :
    (trace[i].op \in {"beforeAll", "beforeEach", "afterEach", "afterAll"}
       /\ trace[i].out = "threw") =>
      /\ pc # "crashed"
      /\ pc = "finally" => (testRun # NoRun /\ testRun.status = "failed")
      /\ FileEnded => \A k \in 1..suite.testsToRun : Executed(k)

\* a step of saveRun or applyRetentionPolicy
PersistenceStep == pc \in {"saveRun", "retention"} /\ pc' # pc

\* C30: saveRun and applyRetentionPolicy, failing or not, leave no error in
\* flight, leave the TestRun and what the reporter was told about it as
\* they are, and hand over to the next step: applyRetentionPolicy after
\* saveRun, the next test case after applyRetentionPolicy when there is
\* one, the after-all hooks otherwise.
C30_Step ==
  PersistenceStep =>
    /\ error' = NoException
    /\ testRun' = testRun
    /\ reporter' = reporter
    /\ fileResults' = fileResults
    /\ pc = "saveRun" => pc' = "retention"
    /\ (pc = "retention" /\ suite.testIdx < suite.testsToRun) =>
         (pc' = "beforeEach" /\ suite'.testIdx = suite.testIdx + 1)
    /\ (pc = "retention" /\ suite.testIdx = suite.testsToRun) => pc' = "afterAll"

ReplayedReason == "All actions successfully replayed from cache"

\* the reasons a primary verdict carries
PrimaryReasons == {AIReason(status) : status \in AIStatuses} \cup {ReplayedReason}

\* the reason names `part`: it is `part`, or it is composed of a primary
\* reason and the after callback's message, one of which is `part`
Mentions(reason, part) ==
  \/ reason = part
  \/ \E r \in PrimaryReasons :
       /\ reason = "AI: " \o r \o ", After: " \o AfterMsg
       /\ part \in {r, AfterMsg}

\* the after callback of the test case threw after the primary verdict:
\* the TestRun carries the callback's message
AfterFnThrew ==
  /\ testRun # NoRun
  /\ pc \in {"afterEach", "saveRun", "retention", "afterAll", "finally", "done", "crashed"}
  /\ Mentions(testRun.reason, AfterMsg)

\* the reason of the primary verdict: of the replay when the TestRun was
\* executed from the cache, of the Action Decider otherwise
PrimaryReason ==
  IF testRun.executedFromCache THEN ReplayedReason ELSE aiResponse.reason

\* C29 as stated: after the after callback threw, the TestRun is failed and
\* its reason names the primary verdict's reason as well as the callback's
\* message, whether the primary verdict was passed or failed.
C29_ReasonNamesVerdictAndHook ==
  AfterFnThrew =>
    /\ testRun.status = "failed"
    /\ Mentions(testRun.reason, AfterMsg)
    /\ Mentions(testRun.reason, PrimaryReason)

\* C29, amended: after the after callback threw, the TestRun is failed and
\* its reason names the callback's message; it also names the primary
\* reason when the Action Decider's verdict was failed, and it is the
\* callback's message alone otherwise (verdict passed, or replay succeeded).
C29_ReasonComposedOnlyForFailedVerdict ==
  AfterFnThrew =>
    /\ testRun.status = "failed"
    /\ Mentions(testRun.reason, AfterMsg)
    /\ IF ~testRun.executedFromCache /\ aiResponse.status = "failed"
       THEN /\ testRun.reason = "AI: " \o aiResponse.reason \o ", After: " \o AfterMsg
            /\ Mentions(testRun.reason, PrimaryReason)
       ELSE testRun.reason = AfterMsg

C29_Witness ==
  /\ pc = "afterEach"
  /\ testRun.status = "failed"
  /\ ~testRun.executedFromCache
  /\ aiResponse.status = "failed"
  /\ testRun.reason = "AI: " \o AIReason("failed") \o ", After: " \o AfterMsg

(***************************************************************************)
(* Properties of executeTest as a whole (checked under Spec).              *)
(***************************************************************************)
\* executeTest has returned for the TestRun and nothing ran after it yet
ExecuteTestReturned == pc = "afterEach" /\ testRun # NoRun

\* C31: for a test case flagged for direct execution, executeTest attempts
\* no replay (the repository is not asked for its runs, nothing is replayed)
\* and does not call the Action Decider; when it returns, the TestRun is
\* passed ("Direct execution successful") or failed with the message of the
\* error the callback threw, not cache-executed, and no error is in flight;
\* the TestRun never leaves executeTest while it is running.
C31_DirectExecutionBypassesCacheAndDecider ==
  testCase.directExecution =>
    /\ events = <<>>
    /\ latestRun = NoRun
    /\ executed = <<>>
    /\ aiResponse = NoResponse
    /\ pc \notin {"runCachedTest", "replay", "cachedAfterFn", "executeTestCatch",
                  "beforeFn", "runAction", "afterFn"}
    /\ (testRun # NoRun /\ testRun.status = "running") =>
         (pc = "executeTest" /\ error = NoException /\ testRuns = NoMemo)
    /\ ExecuteTestReturned =>
         /\ error = NoException
         /\ testRuns = NoMemo
         /\ ~testRun.executedFromCache
         /\ \/ testRun.status = "passed" /\ testRun.reason = "Direct execution successful"
            \/ testRun.status = "failed" /\ testRun.reason = FnMsg

C31_Witness ==
  /\ testCase.directExecution
  /\ config.caching.enabled
  /\ Len(disk) >= 1
  /\ ExecuteTestReturned
  /\ testRun.status = "failed"
  /\ testRun.reason = FnMsg

(***************************************************************************)
(* Properties of TestRun.create (checked under SpecCreate).                *)
(***************************************************************************)
\* C32 as stated: two distinct TestRuns that TestRun.create returned have
\* different runIds, also when they are of the same test case.
C32_RunIdsAreUnique ==
  \A i, j \in DOMAIN created :
    i # j => created[i].run.runId # created[j].run.runId

\* what the live path leaves on the TestRun for the Action Decider's
\* response `resp` (NoResponse when the before callback threw) and the
\* outcome of the after callback
LiveVerdict(resp, afterThrows) ==
  IF resp = NoResponse
  THEN [status |-> "failed", reason |-> BeforeMsg]
  ELSE IF afterThrows
  THEN [status |-> "failed",
        reason |-> IF resp.status = "failed"
                   THEN "AI: " \o resp.reason \o ", After: " \o AfterMsg
                   ELSE AfterMsg]
  ELSE [status |-> resp.status, reason |-> resp.reason]

\* the TestRun carries a verdict of the live path
HasLiveVerdict ==
  /\ ~testRun.executedFromCache
  /\ \E afterThrows \in BOOLEAN :
       /\ LiveVerdict(aiResponse, afterThrows).status \in {"passed", "failed"}
       /\ testRun.status = LiveVerdict(aiResponse, afterThrows).status
       /\ testRun.reason = LiveVerdict(aiResponse, afterThrows).reason

\* C33: when executeTest returns after the replay ended in a CacheError,
\* status and reason of the TestRun are those of the live path for the
\* Action Decider's response and the callbacks' outcomes, the same relation
\* that holds with caching disabled, and the run is not cache-executed.
C33_FallbackVerdictIsLiveVerdict ==
  (ExecuteTestReturned /\ ~testCase.directExecution) =>
    /\ (config.caching.enabled /\ cacheError # NoError) => (skipCache /\ HasLiveVerdict)
    /\ ~config.caching.enabled => (cacheError = NoError /\ HasLiveVerdict)

C33_Witness ==
  /\ ExecuteTestReturned
  /\ config.caching.enabled
  /\ cacheError = "invalid"
  /\ events = <<"runCachedTest", "goto", "runAction">>
  /\ testRun.status = "passed"
  /\ testRun.reason = AIReason("passed")
  /\ ~testRun.executedFromCache

\* C34 as stated: a TestRun flagged as cache-executed is passed, at every
\* moment and in every entry saveRun wrote.
C34_CacheExecutedImpliesPassed ==
  /\ (testRun # NoRun /\ testRun.executedFromCache) => testRun.status = "passed"
  /\ \A i \in DOMAIN disk :
       disk[i].metadata.executedFromCache => disk[i].metadata.status = "passed"

\* runCachedTest has just ended in a CacheError
ReplayAborted == pc = "executeTestCatch" /\ error.kind = "CacheError"

C35_State ==
  /\ ReplayAborted =>
       /\ testRun.status = "running"
       /\ testRun.reason = NoReason
       /\ ~testRun.executedFromCache
  /\ (cacheError # NoError /\ pc \in {"executeTest", "beforeFn", "runAction", "afterFn"}) =>
       (testRun.status = "running" /\ ~testRun.executedFromCache)

C35_Step ==
  (pc = "afterFn" /\ cacheError # NoError /\ aiResponse.status \in {"passed", "failed"}) =>
    /\ pc' = "afterEach"
    /\ error' = NoException
    /\ testRun'.status \in {"passed", "failed"}

\* C35: when runCachedTest ends in a CacheError, after any number of
\* replayed steps, the TestRun is running, without reason and not
\* cache-executed; it stays running through the live retry, whose passed or
\* failed verdict is then recorded without an error.
C35_AbortedReplayLeavesRunRunning == []C35_State /\ [][C35_Step]_vars

C35_Witness ==
  /\ ReplayAborted
  /\ Len(executed) >= 2
  /\ executed[1].ok
  /\ testRun.status = "running"

\* the calls of the Action Decider for the TestRun
RunActionCalls == SelectSeq(events, LAMBDA e : e = "runAction")

\* C36: the Action Decider is called at most once for a TestRun, and not
\* at all for a TestRun that passed by replay, for a test case flagged for
\* direct execution, or after the before callback threw on the live path,
\* in which case the TestRun is failed with the callback's message.
C36_ActionDeciderCalledAtMostOnce ==
  /\ Len(RunActionCalls) <= 1
  /\ aiResponse # NoResponse => Len(RunActionCalls) = 1
  /\ (testRun # NoRun /\ testRun.executedFromCache) => RunActionCalls = <<>>
  /\ testCase.directExecution => RunActionCalls = <<>>
  /\ (testRun # NoRun /\ testRun.reason = BeforeMsg) =>
       (testRun.status = "failed" /\ RunActionCalls = <<>>)
  /\ (ExecuteTestReturned /\ ~testCase.directExecution /\ ~testRun.executedFromCache
        /\ aiResponse = NoResponse) =>
       (testRun.status = "failed" /\ testRun.reason = BeforeMsg /\ RunActionCalls = <<>>)

C36_Witness ==
  /\ ExecuteTestReturned
  /\ ~testCase.directExecution
  /\ testRun.status = "failed"
  /\ testRun.reason = BeforeMsg
  /\ events = <<"runCachedTest", "goto">>

\* the stored runs of the current version that were not executed from cache
CurrentNonCache == {r \in Stored : r.version = VERSION /\ ~r.executedFromCache}

\* executeTestFile saved the run of the live path and applied the retention
\* policy to the runs the replay attempt had memoized (index.ts:542-555)
LiveRunRetained ==
  /\ pc = "afterAll"
  /\ testRun # NoRun
  /\ aiResponse # NoResponse
  /\ \E i \in 1..Len(events) : events[i] = "runCachedTest"
  /\ testRuns.loaded
  /\ \E i \in 1..Len(disk) : disk[i].metadata.runId = testRun.runId
  /\ disk = applyRetentionPolicy(disk, testRuns.runs)

\* C37: after the live path saved its run and the retention policy was
\* applied, the cache directory holds at most one run of the current
\* version that was not executed from cache.
C37_LiveRunsDoNotAccumulate ==
  LiveRunRetained => Cardinality(CurrentNonCache) <= 1

\* the run a replay would use, before the retention policy was applied
ReplayableBefore == getLatestPassedRun(testRuns.runs)

\* C38: the retention policy never removes replayability: the run that
\* getLatestPassedRun returned before the policy was applied is still stored
\* and is still what getLatestPassedRun returns afterwards, from the
\* memoized runs and from a reload of the directory, and a second
\* application of the policy deletes nothing.
C38_RetentionKeepsReplayability ==
  pc = "retained" =>
    /\ ReplayableBefore # NoRun =>
         /\ ReplayableBefore \in Stored
         /\ getLatestPassedRun(getRuns(testRuns, disk)) = ReplayableBefore
         /\ getLatestPassedRun(loadRuns(disk)) = ReplayableBefore
    /\ applyRetentionPolicy(disk, getRuns(testRuns, disk)) = disk
    /\ applyRetentionPolicy(disk, loadRuns(disk)) = disk
    /\ retentionDeletes(loadRuns(disk)) = {}

C38_Witness ==
  /\ pc = "retained"
  /\ ReplayableBefore # NoRun
  /\ Len(testRuns.runs) = 3
  /\ Len(disk) = 1
  /\ \E i \in 1..3 :
       /\ testRuns.runs[i].status = "passed"
       /\ testRuns.runs[i].version = VERSION
       /\ ~testRuns.runs[i].executedFromCache
       /\ testRuns.runs[i].timestamp > ReplayableBefore.timestamp

\* the hooks and the test cases of the current file are running
InHooksAndTests ==
  pc \in {"beforeAll", "beforeEach", "create", "executeTest", "afterEach",
          "saveRun", "retention", "afterAll"}

\* C39: the page handed to the hooks and test cases of a file belongs to
\* the browser context that was launched for that file.
C39_PageBelongsToTheFilesContext ==
  InHooksAndTests =>
    /\ browser.context
    /\ suite.testFileContext = suite.fileIdx

\* C40: onFileEnd is invoked exactly once for every file that
\* executeTestFile handled: never twice, so never with passed and then
\* with failed.
C40_OnFileEndOncePerFile ==
  /\ Len(fileResults) <= suite.fileIdx
  /\ (pc \in {"loop", "returned"} /\ suite.fileIdx >= 1) =>
       Len(fileResults) = suite.fileIdx

====
